---------------------------- MODULE Spec2Model ----------------------------
(***************************************************************************)
(* A model of sixtube_simple.ino: the main cycle loop() of a six-tube      *)
(* Nixie clock (buttons, mode state machine, clock adjustment, automatic   *)
(* GMT/BST switch, digit composition, multiplexer/fader).                  *)
(*                                                                         *)
(* One action, MainCycle, is one execution of loop() up to the cathode     *)
(* cleaning trigger; Tick is the real time clock's own timekeeping.  The   *)
(* values read from the hardware in a cycle (button levels, the number of  *)
(* 10 ms polls the set button stays low, the millisecond counter) are the  *)
(* parameters of MainCycle; each specification draws them from its sets.   *)
(***************************************************************************)
EXTENDS Integers, Sequences, FiniteSets

\* ------------------------------------------------------------------------
\* Program constants
\* ------------------------------------------------------------------------

PERSIST == 7

FSKIP == 2

CLEAN == 350

TOFF == 10

\* nSetTimer >= 70 polls of 10 ms: a long press of the set button.
LongPressPolls == 70

\* delay(10): one poll of the set button's hold loop takes 10 ms.
PollMs == 10

\* The blink half period in milliseconds.
BlinkMs == 500

\* TimeSpan(0,0,0,1), TimeSpan(0,0,1,0), TimeSpan(0,1,0,0), TimeSpan(1,0,0,0),
\* each held as its total of seconds.
nSecondSpan == 1

nMinuteSpan == 60

nHourSpan == 3600

nDaySpan == 86400

\* unsigned long (millis(), nRunTime, nBlinkTime, nEventTime) is 32 bits wide:
\* a value is held as <<high, low>>, its two halves of 16 bits.
Half == 65536

\* ------------------------------------------------------------------------
\* Bounds of the model
\* ------------------------------------------------------------------------

\* A behaviour is followed up to its MaxAdjusts-th manual adjustment (an
\* rtc.adjust call made for <+> or <->).
MaxAdjusts == 1

\* Ticks of the real time clock in one behaviour.
MaxTicks == 2

\* A behaviour of SpecHour is followed until the millisecond counter reaches
\* MaxMillis.
MaxMillis == 1500

\* Seconds the real time clock counts in a behaviour of SpecPerDate.
MaxSeconds == 11
MaxClock == 600
WrapLead == 1300
MaxLead == 500

\* SpecScan: the longest hold of the set button, in polls of 10 ms.
MaxHold == 72

\* ------------------------------------------------------------------------
\* unsigned long arithmetic
\* ------------------------------------------------------------------------

ULong(n) == <<n \div Half, n % Half>>

ULZero == ULong(0)

ULAdd(a, b) ==
    LET lo == a[2] + b[2]
    IN  <<(a[1] + b[1] + lo \div Half) % Half, lo % Half>>

ULSub(a, b) ==
    LET lo == a[2] - b[2]
    IN  <<(a[1] - b[1] - (IF lo < 0 THEN 1 ELSE 0)) % Half, lo % Half>>

ULLess(a, b) == a[1] < b[1] \/ (a[1] = b[1] /\ a[2] < b[2])

\* ------------------------------------------------------------------------
\* DateTime of RTClib, as the sketch uses it: a record of the six fields
\* (yOff = year - 2000); + and - of a TimeSpan go through the seconds since
\* 2000-01-01 and back, dayOfTheWeek() is computed from the date.
\* ------------------------------------------------------------------------

DaysInMonth(m) ==
    CASE m \in {4, 6, 9, 11} -> 30
      [] m = 2 -> 28
      [] OTHER -> 31

RECURSIVE DaysBeforeMonth(_)
DaysBeforeMonth(m) ==
    IF m <= 1 THEN 0 ELSE DaysInMonth(m - 1) + DaysBeforeMonth(m - 1)

\* date2days(y, m, d): days since 2000-01-01, y the year less 2000.
Date2Days(y, m, d) ==
    d + DaysBeforeMonth(m)
      + (IF m > 2 /\ y % 4 = 0 THEN 1 ELSE 0)
      + 365 * y + ((y + 3) \div 4) - 1

\* DateTime(year, month, day, hour, min, sec): the fields are stored as given,
\* the year less 2000 in eight bits.
DateTime(year, month, day, hour, min, sec) ==
    [yOff |-> (IF year >= 2000 THEN year - 2000 ELSE year) % 256,
     m |-> month, d |-> day, hh |-> hour, mm |-> min, ss |-> sec]

SecondsTime(dt) ==
    ((Date2Days(dt.yOff, dt.m, dt.d) * 24 + dt.hh) * 60 + dt.mm) * 60 + dt.ss

YearDays(y) == IF y % 4 = 0 THEN 366 ELSE 365

RECURSIVE YearLoop(_, _)
YearLoop(y, days) ==
    IF days < YearDays(y) THEN <<y, days>> ELSE YearLoop(y + 1, days - YearDays(y))

RECURSIVE MonthLoop(_, _, _)
MonthLoop(leap, m, days) ==
    LET dpm == DaysInMonth(m) + (IF leap /\ m = 2 THEN 1 ELSE 0)
    IN  IF m >= 12 \/ days < dpm THEN <<m, days>>
        ELSE MonthLoop(leap, m + 1, days - dpm)

\* DateTime(uint32_t t), t counted from 2000-01-01 (t >= 0: the specifications
\* keep the clock inside 2000..2099, the range of the DS3231).
FromSeconds(t) ==
    LET days == t \div 86400
        yd == YearLoop(0, days)
        md == MonthLoop(yd[1] % 4 = 0, 1, yd[2])
    IN  [yOff |-> yd[1], m |-> md[1], d |-> md[2] + 1,
         hh |-> (t \div 3600) % 24, mm |-> (t \div 60) % 60, ss |-> t % 60]

DateTimePlus(dt, nSpan) == FromSeconds(SecondsTime(dt) + nSpan)

DateTimeMinus(dt, nSpan) == FromSeconds(SecondsTime(dt) - nSpan)

\* 0 = Sunday; 2000-01-01 was a Saturday.
DayOfTheWeek(dt) == (Date2Days(dt.yOff, dt.m, dt.d) + 6) % 7

YearOf(dt) == 2000 + dt.yOff


\* ------------------------------------------------------------------------
\* State
\* ------------------------------------------------------------------------

VARIABLES
    pc,                  \* "boot": loop() has not run yet; "main": between two
                         \* executions of loop(); "clean": the cleaning cycle
                         \* was triggered at the end of loop(); "fadeOn",
                         \* "show", "fadeOff": before the three waits of a
                         \* step of the cleaning cycle; "encode": at
                         \* the entry of a call of SetSN74141; "encoded": at
                         \* its return; "hold": in the hold loop of the set
                         \* button; "released": after it; "scan": inside
                         \* DisplayDigits
    nScanStep,           \* inside DisplayDigits: the statements of its three
                         \* anode channels that were executed (0..12)
    anode,               \* the levels of the anode lines nAnode1..nAnode3
    nEncode1, nEncode2,  \* the arguments of the last call of SetSN74141
    cathode1, cathode2,  \* the levels on the a, b, c, d inputs of SN74141(1)
                         \* and SN74141(2)
    rtc,                 \* the date and time the DS3231 holds
    millis,              \* the last reading of the millisecond counter
    nNow, nYear, nMonth, nDay, nHour, nMinute, nSecond, nDayOfTheWeek,
    nHourLo, nHourHi,    \* the low and high order numbers of the hour shown
    nNumber,             \* numbers for display, tube index 0..5
    nOldNumber, nFadeIn, nFadeOut, nFadeSkip,
    nModeInput, nSetInput, nPlusInput, nMinusInput,
    bModeButtonPressed, bSetButtonPressed, bPlusButtonPressed, bMinusButtonPressed,
    bTimeMode, bSetMode, bBlink, nPair, nSetTimer,
    nRunTime, nBlinkTime,
    bPerDate, bAutoChange,
    bSetLow,             \* history: the set line was low at line 541 of this cycle
    rtcWrites,           \* history: the rtc.adjust() calls of this cycle, in order
    nBstWrites,          \* history: how many of them the AUTO_BST block wrote
    nAdjusts,            \* history: manual adjustments (for <+> and <->) so far
    nTicks,              \* history: ticks so far
    nEventTime,          \* the start of the wait the cleaning cycle is in
    jSweep,              \* j, the loop counter of the cleaning cycle
    rtcMs,               \* the milliseconds the real time clock is past its
                         \* last full second (followed during a cleaning cycle)
    nSweeps,             \* history: cleaning cycles started so far
    nSweepNow,           \* history: the snapshot of the main cycle that started
                         \* the last of them
    bLateChange,         \* history: the numbers changed between two scans of
                         \* the fade that the last scan continued or completed
    nFadeScans,          \* history: the scans of that fade so far (0: the last
                         \* scan found no fade to start or continue)
    nDelayOut,           \* history: the delay(nFadeOut) of the last scan, the
                         \* milliseconds each anode lit the old numbers
    nDriven              \* history: for each tube, the numbers 0..9 it was lit
                         \* with in the scans of the cleaning cycle that is
                         \* running or was the last to run

clockVars == <<nNow, nYear, nMonth, nDay, nHour, nMinute, nSecond, nDayOfTheWeek>>

fadeVars == <<nOldNumber, nFadeIn, nFadeOut, nFadeSkip>>

inputVars == <<nModeInput, nSetInput, nPlusInput, nMinusInput>>

pressedVars ==
    <<bModeButtonPressed, bSetButtonPressed, bPlusButtonPressed, bMinusButtonPressed>>

uiVars == <<bTimeMode, bSetMode, bBlink, nPair, nSetTimer, nRunTime, nBlinkTime,
            bPerDate, bAutoChange>>

histVars == <<bSetLow, rtcWrites, nBstWrites, nAdjusts>>

decoderVars == <<nEncode1, nEncode2, cathode1, cathode2>>

anodeVars == <<nScanStep, anode>>

hourVars == <<nHourLo, nHourHi>>

sweepVars == <<nEventTime, jSweep, rtcMs, nSweeps, nSweepNow>>

vars == <<pc, rtc, millis, clockVars, nNumber, fadeVars, inputVars, pressedVars,
          uiVars, histVars, nTicks, decoderVars, hourVars, sweepVars, bLateChange,
          nFadeScans, nDelayOut, nDriven, anodeVars>>

\* The four inputs of one SN74141.
Lines(a, b, c, d) == [a |-> a, b |-> b, c |-> c, d |-> d]

Blank6 == [j \in 0..5 |-> TOFF]

\* A date the calendar has (the DS3231 keeps time only from such a date).
ValidDateTime(dt) ==
    /\ dt.m \in 1..12
    /\ dt.d >= 1
    /\ dt.d <= DaysInMonth(dt.m) + (IF dt.m = 2 /\ dt.yOff % 4 = 0 THEN 1 ELSE 0)
    /\ dt.hh \in 0..23 /\ dt.mm \in 0..59 /\ dt.ss \in 0..59

\* The state after the static initialisers and setup(), the real time clock
\* holding t0; p is the position of the program, e1 and e2 the arguments of
\* SetSN74141 when p is "encode" (0 when it was not called yet: the outputs of
\* setup() are low).
InitWith(t0, p, e1, e2) ==
    /\ pc = p
    /\ rtc = t0
    /\ millis = ULZero
    /\ nNow = FromSeconds(0)
    /\ nYear = 0 /\ nMonth = 0 /\ nDay = 0
    /\ nHour = 0 /\ nMinute = 0 /\ nSecond = 0 /\ nDayOfTheWeek = 0
    /\ nHourLo = 0 /\ nHourHi = 0
    /\ nNumber = Blank6
    /\ nOldNumber = Blank6
    /\ nFadeIn = 0 /\ nFadeOut = 0 /\ nFadeSkip = FSKIP
    /\ nModeInput = 0 /\ nSetInput = 0 /\ nPlusInput = 0 /\ nMinusInput = 0
    /\ bModeButtonPressed = FALSE /\ bSetButtonPressed = FALSE
    /\ bPlusButtonPressed = FALSE /\ bMinusButtonPressed = FALSE
    /\ bTimeMode = TRUE /\ bSetMode = FALSE /\ bBlink = FALSE
    /\ nPair = 1 /\ nSetTimer = 0
    /\ nRunTime = ULZero /\ nBlinkTime = ULZero
    /\ bPerDate = FALSE /\ bAutoChange = FALSE
    /\ bSetLow = FALSE /\ rtcWrites = <<>> /\ nBstWrites = 0
    /\ nAdjusts = 0 /\ nTicks = 0
    /\ nEventTime = ULZero /\ jSweep = 0 /\ rtcMs = 0 /\ nSweeps = 0
    /\ nSweepNow = FromSeconds(0)
    /\ bLateChange = FALSE /\ nFadeScans = 0 /\ nDelayOut = 0
    /\ nDriven = [j \in 0..5 |-> {}]
    /\ nScanStep = 0 /\ anode = [c \in 1..3 |-> FALSE]
    /\ nEncode1 = e1 /\ nEncode2 = e2
    /\ cathode1 = Lines(0, 0, 0, 0) /\ cathode2 = Lines(0, 0, 0, 0)

InitAt(t0) == InitWith(t0, "boot", 0, 0)

\* ------------------------------------------------------------------------
\* The clock: ReadRealTimeClock and the adjustment functions.  They work on
\* the record k of the globals they read and write:
\*   rtc, nNow, nYear, nMonth, nDay, nHour, nMinute, nSecond, nDayOfTheWeek
\* and writes, the values given to rtc.adjust() so far in this cycle.
\* ------------------------------------------------------------------------

ReadRealTimeClock ==
    [rtc |-> rtc, nNow |-> rtc,
     nSecond |-> rtc.ss, nMinute |-> rtc.mm, nHour |-> rtc.hh,
     nDay |-> rtc.d, nMonth |-> rtc.m, nYear |-> YearOf(rtc),
     nDayOfTheWeek |-> DayOfTheWeek(rtc),
     writes |-> <<>>]

\* rtc.adjust(dt); the history keeps dt and the direction of the adjustment.
RtcAdjust(k, bAdvance, dt) ==
    [k EXCEPT !.rtc = dt, !.writes = Append(@, [bAdvance |-> bAdvance, dt |-> dt])]

AdjustDHMS(k, bAdvance, nSpan) ==
    IF bAdvance
    THEN RtcAdjust(k, TRUE, DateTimePlus(k.nNow, nSpan))
    ELSE RtcAdjust(k, FALSE, DateTimeMinus(k.nNow, nSpan))

\* Mutant of AdjustMonth: the month carries into the year.
AdjustMonthCarry(k, bAdvance) ==
    LET m1 == IF bAdvance THEN (k.nMonth + 1) % 256 ELSE (k.nMonth + 255) % 256
        m2 == IF bAdvance
              THEN (IF m1 = 13 THEN 1 ELSE m1)
              ELSE (IF m1 = 0 THEN 12 ELSE m1)
        y2 == IF m1 = 13 THEN k.nYear + 1 ELSE IF m1 = 0 THEN k.nYear - 1 ELSE k.nYear
        dt == DateTime(y2, m2, k.nDay, k.nHour, k.nMinute, k.nSecond)
    IN  RtcAdjust([k EXCEPT !.nMonth = m2, !.nYear = y2, !.nNow = dt], bAdvance, dt)

\* nMonth is a byte: ++ and -- are modulo 256.
AdjustMonth(k, bAdvance) ==
    LET m1 == IF bAdvance THEN (k.nMonth + 1) % 256 ELSE (k.nMonth + 255) % 256
        m2 == IF bAdvance
              THEN (IF m1 = 13 THEN 1 ELSE m1)
              ELSE (IF m1 = 0 THEN 12 ELSE m1)
        dt == DateTime(k.nYear, m2, k.nDay, k.nHour, k.nMinute, k.nSecond)
    IN  RtcAdjust([k EXCEPT !.nMonth = m2, !.nNow = dt], bAdvance, dt)

AdjustYear(k, bAdvance) ==
    LET y1 == IF bAdvance THEN k.nYear + 1 ELSE k.nYear - 1
        dt == DateTime(y1, k.nMonth, k.nDay, k.nHour, k.nMinute, k.nSecond)
    IN  RtcAdjust([k EXCEPT !.nYear = y1, !.nNow = dt], bAdvance, dt)

\* Mutant of Adjust: pairs 1 and 3 exchanged.
AdjustPairsSwapped(k, pair, bTime, bAdvance) ==
    IF pair = 3
    THEN (IF bTime THEN AdjustDHMS(k, bAdvance, nHourSpan)
                   ELSE AdjustDHMS(k, bAdvance, nDaySpan))
    ELSE IF pair = 2
    THEN (IF bTime THEN AdjustDHMS(k, bAdvance, nMinuteSpan)
                   ELSE AdjustMonth(k, bAdvance))
    ELSE IF pair = 1
    THEN (IF bTime THEN AdjustDHMS(k, bAdvance, nSecondSpan)
                   ELSE AdjustYear(k, bAdvance))
    ELSE k

Adjust(k, pair, bTime, bAdvance) ==
    IF pair = 1
    THEN (IF bTime THEN AdjustDHMS(k, bAdvance, nHourSpan)
                   ELSE AdjustDHMS(k, bAdvance, nDaySpan))
    ELSE IF pair = 2
    THEN (IF bTime THEN AdjustDHMS(k, bAdvance, nMinuteSpan)
                   ELSE AdjustMonth(k, bAdvance))
    ELSE IF pair = 3
    THEN (IF bTime THEN AdjustDHMS(k, bAdvance, nSecondSpan)
                   ELSE AdjustYear(k, bAdvance))
    ELSE k

\* ------------------------------------------------------------------------
\* loop(): the buttons
\* ------------------------------------------------------------------------

\* Mutant of ModeButton: TIME/DATE toggles when the press is first seen.
ModeButtonOnPress(pressed, timeMode, level) ==
    IF level = 0
    THEN [bModeButtonPressed |-> TRUE,
          bTimeMode |-> IF pressed THEN timeMode ELSE ~timeMode]
    ELSE [bModeButtonPressed |-> FALSE, bTimeMode |-> timeMode]

\* TIME/DATE: the mode button, given the level read from A1.
ModeButton(pressed, timeMode, level) ==
    LET p1 == pressed \/ level = 0
    IN  IF p1 /\ level = 1
        THEN [bModeButtonPressed |-> FALSE, bTimeMode |-> ~timeMode]
        ELSE [bModeButtonPressed |-> p1, bTimeMode |-> timeMode]

\* Mutant of IsLongPress: the threshold taken in polls as if a poll were 1 ms.
IsLongPressMs(nPolls) == nPolls >= PollMs * LongPressPolls

\* Mutant of IsLongPress: > for >=.
IsLongPressStrict(nPolls) == nPolls > LongPressPolls

\* A press of nPolls polls of 10 ms is long.
IsLongPress(nPolls) == nPolls >= LongPressPolls

\* Mutant of HourShown: the 12 hour clock in SET mode too.
HourShown12(hour, setMode) == IF hour <= 12 THEN hour ELSE hour - 12

\* Mutant of SetButton: leaving SET mode does not clear bPerDate.
SetButtonKeepsPerDate(level, nPolls) ==
    IF level = 0
    THEN LET toggle == IsLongPress(nPolls)
             setMode == IF toggle THEN ~bSetMode ELSE bSetMode
             leave == toggle /\ ~setMode
         IN  [bSetButtonPressed |-> TRUE, nSetTimer |-> nPolls, nSetInput |-> 1,
              bSetMode |-> setMode,
              nPair |-> IF leave THEN 1 ELSE nPair,
              bPerDate |-> bPerDate]
    ELSE [bSetButtonPressed |-> bSetButtonPressed, nSetTimer |-> nSetTimer,
          nSetInput |-> level,
          bSetMode |-> bSetMode, nPair |-> nPair, bPerDate |-> bPerDate]

\* SET/DISPLAY: the set button, given the level read from A0 and, when it is
\* low, the number of polls of the blocking hold loop (one poll of 10 ms per
\* pass, the loop is left when the line is read high).
SetButton(level, nPolls) ==
    IF level = 0
    THEN LET toggle == IsLongPress(nPolls)
             setMode == IF toggle THEN ~bSetMode ELSE bSetMode
             leave == toggle /\ ~setMode
         IN  [bSetButtonPressed |-> TRUE, nSetTimer |-> nPolls, nSetInput |-> 1,
              bSetMode |-> setMode,
              nPair |-> IF leave THEN 1 ELSE nPair,
              bPerDate |-> IF leave THEN FALSE ELSE bPerDate]
    ELSE [bSetButtonPressed |-> bSetButtonPressed, nSetTimer |-> nSetTimer,
          nSetInput |-> level,
          bSetMode |-> bSetMode, nPair |-> nPair, bPerDate |-> bPerDate]

\* Mutant of AutoBST: the latch is not looked at.
AutoBSTNoLatch(k, autoChange) ==
    LET cond == /\ k.nDayOfTheWeek = 0 /\ k.nDay >= 25
                /\ k.nMinute = 0 /\ k.nSecond = 0
        spring == cond /\ k.nHour = 1 /\ k.nMonth = 3
        k1 == IF spring THEN AdjustDHMS(k, TRUE, nHourSpan) ELSE k
        fall == cond /\ k.nHour = 2 /\ k.nMonth = 10
        k2 == IF fall THEN AdjustDHMS(k1, FALSE, nHourSpan) ELSE k1
        a2 == autoChange \/ spring \/ fall
    IN  [k |-> k2, bAutoChange |-> IF a2 /\ k.nHour = 3 THEN FALSE ELSE a2]

\* Mutant of AutoBST: the latch is cleared at hour 1 instead of hour 3.
AutoBSTEarlyReset(k, autoChange) ==
    LET cond == /\ k.nDayOfTheWeek = 0 /\ k.nDay >= 25
                /\ k.nMinute = 0 /\ k.nSecond = 0 /\ ~autoChange
        spring == cond /\ k.nHour = 1 /\ k.nMonth = 3
        k1 == IF spring THEN AdjustDHMS(k, TRUE, nHourSpan) ELSE k
        fall == cond /\ k.nHour = 2 /\ k.nMonth = 10
        k2 == IF fall THEN AdjustDHMS(k1, FALSE, nHourSpan) ELSE k1
        a2 == autoChange \/ spring \/ fall
    IN  [k |-> k2, bAutoChange |-> IF a2 /\ k.nHour = 1 THEN FALSE ELSE a2]

\* AUTO_BST: the automatic GMT/BST change on the snapshot k.
AutoBST(k, autoChange) ==
    LET cond == /\ k.nDayOfTheWeek = 0 /\ k.nDay >= 25
                /\ k.nMinute = 0 /\ k.nSecond = 0 /\ ~autoChange
        spring == cond /\ k.nHour = 1 /\ k.nMonth = 3
        k1 == IF spring THEN AdjustDHMS(k, TRUE, nHourSpan) ELSE k
        fall == cond /\ k.nHour = 2 /\ k.nMonth = 10
        k2 == IF fall THEN AdjustDHMS(k1, FALSE, nHourSpan) ELSE k1
        a2 == autoChange \/ spring \/ fall
    IN  [k |-> k2, bAutoChange |-> IF a2 /\ k.nHour = 3 THEN FALSE ELSE a2]

\* Mutant of NextPair: >= for >, pair 3 is never selected.
NextPairEarlyWrap(pair) == IF pair + 1 >= 3 THEN 1 ELSE pair + 1

\* The next pair on a release of the set button in SET mode.
NextPair(pair) == IF pair + 1 > 3 THEN 1 ELSE pair + 1

\* Mutant of SetModeButtons: plus and minus adjust while they are held low
\* (auto-repeat) instead of on their release.
SetModeButtonsRepeat(k, s, timeMode, plus, minus) ==
    IF s.bSetMode
    THEN LET setRel == s.bSetButtonPressed /\ s.nSetInput = 1
             pair == IF setRel THEN NextPair(s.nPair) ELSE s.nPair
             k1 == IF plus = 0 THEN Adjust(k, pair, timeMode, TRUE) ELSE k
             k2 == IF minus = 0 THEN Adjust(k1, pair, timeMode, FALSE) ELSE k1
         IN  [k |-> k2, nPair |-> pair,
              bSetButtonPressed |-> IF setRel THEN FALSE ELSE s.bSetButtonPressed,
              bPlusButtonPressed |-> plus = 0,
              bMinusButtonPressed |-> minus = 0]
    ELSE [k |-> k, nPair |-> s.nPair,
          bSetButtonPressed |-> s.bSetButtonPressed,
          bPlusButtonPressed |-> bPlusButtonPressed,
          bMinusButtonPressed |-> bMinusButtonPressed]

\* SET mode: the set, plus and minus buttons (s is what SetButton returned,
\* plus and minus the levels read from A6 and A3).
SetModeButtons(k, s, timeMode, plus, minus) ==
    IF s.bSetMode
    THEN LET setRel == s.bSetButtonPressed /\ s.nSetInput = 1
             pair == IF setRel THEN NextPair(s.nPair) ELSE s.nPair
             pp == bPlusButtonPressed \/ plus = 0
             pm == bMinusButtonPressed \/ minus = 0
             plusRel == pp /\ plus = 1
             minusRel == pm /\ minus = 1
             k1 == IF plusRel THEN Adjust(k, pair, timeMode, TRUE) ELSE k
             k2 == IF minusRel THEN Adjust(k1, pair, timeMode, FALSE) ELSE k1
         IN  [k |-> k2, nPair |-> pair,
              bSetButtonPressed |-> IF setRel THEN FALSE ELSE s.bSetButtonPressed,
              bPlusButtonPressed |-> IF plusRel THEN FALSE ELSE pp,
              bMinusButtonPressed |-> IF minusRel THEN FALSE ELSE pm]
    ELSE [k |-> k, nPair |-> s.nPair,
          bSetButtonPressed |-> s.bSetButtonPressed,
          bPlusButtonPressed |-> bPlusButtonPressed,
          bMinusButtonPressed |-> bMinusButtonPressed]

\* ------------------------------------------------------------------------
\* loop(): the numbers to display
\* ------------------------------------------------------------------------

\* CLOCK12: the hour shown, 24 hour in set mode, 12 hour in display mode.
HourShown(hour, setMode) ==
    IF setMode THEN hour
    ELSE IF hour <= 12 THEN hour ELSE hour - 12

\* High and low order numbers of the globals in k.
Digits(k, setMode) ==
    LET y2 == (k.nYear % 100) % 256
        h == HourShown(k.nHour, setMode)
    IN  [nYearLo |-> y2 % 10, nYearHi |-> y2 \div 10,
         nMonthLo |-> k.nMonth % 10, nMonthHi |-> k.nMonth \div 10,
         nDayLo |-> k.nDay % 10, nDayHi |-> k.nDay \div 10,
         nHourLo |-> h % 10, nHourHi |-> h \div 10,
         nMinuteLo |-> k.nMinute % 10, nMinuteHi |-> k.nMinute \div 10,
         nSecondLo |-> k.nSecond % 10, nSecondHi |-> k.nSecond \div 10]

TimeNumbers(g) ==
    [j \in 0..5 |->
        CASE j = 5 -> g.nHourHi [] j = 1 -> g.nHourLo
          [] j = 3 -> g.nMinuteHi [] j = 2 -> g.nMinuteLo
          [] j = 4 -> g.nSecondHi [] OTHER -> g.nSecondLo]

\* Mutant of DateNumbers: the cells of day and year exchanged.
DateNumbersYearFirst(g) ==
    [j \in 0..5 |->
        CASE j = 5 -> g.nYearHi [] j = 1 -> g.nYearLo
          [] j = 3 -> g.nMonthHi [] j = 2 -> g.nMonthLo
          [] j = 4 -> g.nDayHi [] OTHER -> g.nDayLo]

DateNumbers(g) ==
    [j \in 0..5 |->
        CASE j = 5 -> g.nDayHi [] j = 1 -> g.nDayLo
          [] j = 3 -> g.nMonthHi [] j = 2 -> g.nMonthLo
          [] j = 4 -> g.nYearHi [] OTHER -> g.nYearLo]

\* The two cells of a pair of tubes: 1 = left, 2 = middle, 3 = right.
PairCells(pair) ==
    CASE pair = 1 -> {5, 1} [] pair = 2 -> {3, 2} [] pair = 3 -> {4, 0} [] OTHER -> {}

\* Mutant of BlinkNumbers: the selected pair is off when the blink flag is on.
BlinkNumbersInverted(num, full, pair, blink) ==
    IF pair \in 1..3
    THEN [j \in 0..5 |-> IF j \in PairCells(pair) /\ blink THEN TOFF ELSE full[j]]
    ELSE num

\* Set mode, on a blink event: the selected pair on or off, the other pairs on.
BlinkNumbers(num, full, pair, blink) ==
    IF pair \in 1..3
    THEN [j \in 0..5 |-> IF j \in PairCells(pair) /\ ~blink THEN TOFF ELSE full[j]]
    ELSE num

\* TIME mode tests nRunTime > nBlinkTime + 500, DATE mode
\* nRunTime - nBlinkTime > 500, both in unsigned long arithmetic.
BlinkDue(timeMode, runTime, blinkTime) ==
    IF timeMode
    THEN ULLess(ULAdd(blinkTime, ULong(BlinkMs)), runTime)
    ELSE ULLess(ULong(BlinkMs), ULSub(runTime, blinkTime))

\* Mutant of PerDateNext: the flag is cleared at second 9.
PerDateNextOff9(perDate, g, second) ==
    IF g.nMinuteLo = 3 /\ second = 1 /\ ~perDate THEN TRUE
    ELSE IF g.nMinuteLo = 3 /\ second = 9 /\ perDate THEN FALSE
    ELSE perDate

\* PERDATE: the periodic date flag in TIME, DISPLAY mode.
PerDateNext(perDate, g, second) ==
    IF g.nMinuteLo = 3 /\ second = 1 /\ ~perDate THEN TRUE
    ELSE IF g.nMinuteLo = 3 /\ second = 10 /\ perDate THEN FALSE
    ELSE perDate

\* The numbers assembled in one cycle: nNumber, bBlink, nBlinkTime, bPerDate.
Compose(k, timeMode, setMode, pair, perDate, runTime) ==
    LET g == Digits(k, setMode)
        bt == IF ULLess(runTime, nBlinkTime) THEN ULZero ELSE nBlinkTime
        full == IF timeMode THEN TimeNumbers(g) ELSE DateNumbers(g)
    IN  IF setMode
        THEN IF BlinkDue(timeMode, runTime, bt)
             THEN [nNumber |-> BlinkNumbers(nNumber, full, pair, ~bBlink),
                   bBlink |-> ~bBlink, nBlinkTime |-> runTime, bPerDate |-> perDate]
             ELSE [nNumber |-> nNumber, bBlink |-> bBlink, nBlinkTime |-> bt,
                   bPerDate |-> perDate]
        ELSE IF timeMode
        THEN LET pd == PerDateNext(perDate, g, k.nSecond)
             IN  [nNumber |-> IF pd THEN DateNumbers(g) ELSE TimeNumbers(g),
                  bBlink |-> bBlink, nBlinkTime |-> bt, bPerDate |-> pd]
        ELSE [nNumber |-> DateNumbers(g), bBlink |-> bBlink, nBlinkTime |-> bt,
              bPerDate |-> perDate]

\* ------------------------------------------------------------------------
\* SetSN74141(): the a, b, c, d inputs of a decoder for the number nEncode.
\* ------------------------------------------------------------------------

\* Mutant of SN74141Inputs: a and d exchanged (d the least significant bit).
SN74141InputsReversed(nEncode) ==
    CASE nEncode = 0 -> Lines(0, 0, 0, 0)
      [] nEncode = 1 -> Lines(0, 0, 0, 1)
      [] nEncode = 2 -> Lines(0, 1, 0, 0)
      [] nEncode = 3 -> Lines(0, 1, 0, 1)
      [] nEncode = 4 -> Lines(0, 0, 1, 0)
      [] nEncode = 5 -> Lines(0, 0, 1, 1)
      [] nEncode = 6 -> Lines(0, 1, 1, 0)
      [] nEncode = 7 -> Lines(0, 1, 1, 1)
      [] nEncode = 8 -> Lines(1, 0, 0, 0)
      [] nEncode = 9 -> Lines(1, 0, 0, 1)
      [] OTHER -> Lines(1, 1, 1, 1)

\* The switch statement (the same for both decoders).
SN74141Inputs(nEncode) ==
    CASE nEncode = 0 -> Lines(0, 0, 0, 0)
      [] nEncode = 1 -> Lines(1, 0, 0, 0)
      [] nEncode = 2 -> Lines(0, 1, 0, 0)
      [] nEncode = 3 -> Lines(1, 1, 0, 0)
      [] nEncode = 4 -> Lines(0, 0, 1, 0)
      [] nEncode = 5 -> Lines(1, 0, 1, 0)
      [] nEncode = 6 -> Lines(0, 1, 1, 0)
      [] nEncode = 7 -> Lines(1, 1, 1, 0)
      [] nEncode = 8 -> Lines(0, 0, 0, 1)
      [] nEncode = 9 -> Lines(1, 0, 0, 1)
      [] OTHER -> Lines(1, 1, 1, 1)

\* One call of SetSN74141 with the arguments it was entered with.
SetSN74141 ==
    /\ pc = "encode"
    /\ cathode1' = SN74141Inputs(nEncode1)
    /\ cathode2' = SN74141Inputs(nEncode2)
    /\ pc' = "encoded"
    /\ UNCHANGED <<rtc, millis, clockVars, nNumber, fadeVars, inputVars, pressedVars,
                   uiVars, histVars, nTicks, nEncode1, nEncode2, hourVars, sweepVars,
                   bLateChange, nFadeScans, nDelayOut, nDriven, anodeVars>>

\* ------------------------------------------------------------------------
\* DisplayDigits(): one scan of the three pairs of tubes, with fade.
\* ------------------------------------------------------------------------

\* Mutant of DisplayDigits: the old numbers are set to the current ones at
\* every decrement of the fade out counter.
DisplayDigitsSnapEarly(num, old, fadeOut, fadeSkip) ==
    LET fo1 == IF old # num /\ fadeOut = 0 THEN PERSIST ELSE fadeOut
        fi == PERSIST - fo1
        step == fo1 > 0 /\ fadeSkip - 1 = 0
        fo2 == IF step THEN fo1 - 1 ELSE fo1
    IN  [nDelayOut |-> fo1,
         nFadeIn |-> fi,
         nFadeOut |-> fo2,
         nFadeSkip |-> IF fo1 > 0 THEN (IF step THEN FSKIP ELSE fadeSkip - 1)
                       ELSE fadeSkip,
         nOldNumber |-> IF step THEN num ELSE old]

\* Mutant of DisplayDigits: a change of the numbers restarts a running fade.
DisplayDigitsRestart(num, old, fadeOut, fadeSkip) ==
    LET fo1 == IF old # num THEN PERSIST ELSE fadeOut
        fi == PERSIST - fo1
        step == fo1 > 0 /\ fadeSkip - 1 = 0
        fo2 == IF step THEN fo1 - 1 ELSE fo1
    IN  [nDelayOut |-> fo1,
         nFadeIn |-> fi,
         nFadeOut |-> fo2,
         nFadeSkip |-> IF fo1 > 0 THEN (IF step THEN FSKIP ELSE fadeSkip - 1)
                       ELSE fadeSkip,
         nOldNumber |-> IF step /\ fo2 = 0 THEN num ELSE old]

\* Mutant of DisplayDigits: the fade out counter is decremented in every scan.
DisplayDigitsNoSkip(num, old, fadeOut, fadeSkip) ==
    LET fo1 == IF old # num /\ fadeOut = 0 THEN PERSIST ELSE fadeOut
        fo2 == IF fo1 > 0 THEN fo1 - 1 ELSE fo1
    IN  [nDelayOut |-> fo1,
         nFadeIn |-> PERSIST - fo1,
         nFadeOut |-> fo2,
         nFadeSkip |-> FSKIP,
         nOldNumber |-> IF fo1 > 0 /\ fo2 = 0 THEN num ELSE old]

\* Mutant of DisplayDigits: the old numbers stay when the fade completes.
DisplayDigitsKeepOld(num, old, fadeOut, fadeSkip) ==
    LET fo1 == IF old # num /\ fadeOut = 0 THEN PERSIST ELSE fadeOut
        fi == PERSIST - fo1
        step == fo1 > 0 /\ fadeSkip - 1 = 0
        fo2 == IF step THEN fo1 - 1 ELSE fo1
    IN  [nDelayOut |-> fo1,
         nFadeIn |-> fi,
         nFadeOut |-> fo2,
         nFadeSkip |-> IF fo1 > 0 THEN (IF step THEN FSKIP ELSE fadeSkip - 1)
                       ELSE fadeSkip,
         nOldNumber |-> old]

DisplayDigits(num, old, fadeOut, fadeSkip) ==
    LET fo1 == IF old # num /\ fadeOut = 0 THEN PERSIST ELSE fadeOut
        fi == PERSIST - fo1
        step == fo1 > 0 /\ fadeSkip - 1 = 0
        fo2 == IF step THEN fo1 - 1 ELSE fo1
    IN  [nDelayOut |-> fo1,
         nFadeIn |-> fi,
         nFadeOut |-> fo2,
         nFadeSkip |-> IF fo1 > 0 THEN (IF step THEN FSKIP ELSE fadeSkip - 1)
                       ELSE fadeSkip,
         nOldNumber |-> IF step /\ fo2 = 0 THEN num ELSE old]

\* History of a scan entered with the fade out counter at fadeOut: bChange,
\* its numbers are not those of the scan before; bLate, the history so far.
LateChange(fadeOut, bChange, bLate) == fadeOut > 0 /\ (bLate \/ bChange)

\* History of a scan entered with the fade out counter at fadeOut: bDiffer,
\* its numbers are not the old numbers; n, the scans of the fade so far.
FadeScans(fadeOut, bDiffer, n) ==
    IF fadeOut > 0 THEN n + 1 ELSE IF bDiffer THEN 1 ELSE 0

\* Mutant of CleanDue: the cleaning cycle starts in SET mode too.
CleanDueAnyMode(k, setMode) == k.nMinute % 10 = 5 /\ k.nSecond = 1

\* Mutant of CleanDue: the cleaning cycle starts at 05:01 past the hour only.
CleanDueHourly(k, setMode) == ~setMode /\ k.nMinute = 5 /\ k.nSecond = 1

\* The cathode cleaning cycle starts at the end of this cycle.
CleanDue(k, setMode) == ~setMode /\ k.nMinute % 10 = 5 /\ k.nSecond = 1

\* ------------------------------------------------------------------------
\* DisplayDigits(), statement by statement
\* ------------------------------------------------------------------------

\* Mutant of AnodeWrite: the line is driven high whatever the level asked for.
AnodeWriteHigh(an, c, b) == [an EXCEPT ![c] = TRUE]

\* digitalWrite(nAnode<c>, b) on the levels an of the three anode lines.
AnodeWrite(an, c, b) == [an EXCEPT ![c] = b]

\* What the statements of DisplayDigits and the hold loop leave alone.
scanFrame == <<rtc, millis, clockVars, nModeInput, nPlusInput, nMinusInput,
               bModeButtonPressed, bPlusButtonPressed, bMinusButtonPressed,
               bTimeMode, bBlink, nRunTime, nBlinkTime, bAutoChange, histVars,
               nTicks, hourVars, sweepVars, bLateChange, nFadeScans, nDriven>>

\* The set button is read low: the hold loop is entered.
HoldBegin ==
    /\ pc = "main"
    /\ nSetInput' = 0
    /\ bSetButtonPressed' = TRUE
    /\ nSetTimer' = 0
    /\ pc' = "hold"
    /\ UNCHANGED <<scanFrame, nNumber, fadeVars, decoderVars, anodeVars, bSetMode,
                   nPair, bPerDate, nDelayOut>>

\* One pass of the hold loop reading the set button as set; when it is
\* released a long press toggles between SET and DISPLAY mode.
HoldPoll(set) ==
    /\ pc = "hold"
    /\ nSetTimer' = nSetTimer + 1
    /\ nSetInput' = set
    /\ \E bToggle \in {set = 1 /\ IsLongPress(nSetTimer + 1)} :
           /\ bSetMode' = IF bToggle THEN ~bSetMode ELSE bSetMode
           /\ nPair' = IF bToggle /\ bSetMode THEN 1 ELSE nPair
           /\ bPerDate' = IF bToggle /\ bSetMode THEN FALSE ELSE bPerDate
    /\ pc' = IF set = 0 THEN "hold" ELSE "released"
    /\ UNCHANGED <<scanFrame, nNumber, fadeVars, decoderVars, anodeVars,
                   bSetButtonPressed, nDelayOut>>

\* DisplayDigits is called with the numbers num in nNumber (by loop() or by a
\* wait of the cleaning cycle): a fade starts when they differ from the old
\* numbers and none is running, and the fade in share is set.
ScanEnter(num) ==
    /\ pc \in {"main", "released"}
    /\ \E dd \in {DisplayDigits(num, nOldNumber, nFadeOut, nFadeSkip)} :
           /\ nNumber' = num
           /\ nFadeOut' = dd.nDelayOut
           /\ nFadeIn' = dd.nFadeIn
           /\ nDelayOut' = dd.nDelayOut
    /\ pc' = "scan"
    /\ nScanStep' = 0
    /\ UNCHANGED <<scanFrame, nOldNumber, nFadeSkip, decoderVars, anode, nSetInput,
                   bSetButtonPressed, nSetTimer, bSetMode, nPair, bPerDate>>

\* The four statements of anode channel c (tubes c + 2 and c - 1):
\* SetSN74141 with the old numbers,
ScanSetOld ==
    /\ pc = "scan" /\ nScanStep < 12 /\ nScanStep % 4 = 0
    /\ \E c \in {(nScanStep \div 4) + 1} :
           /\ nEncode1' = nOldNumber[c + 2] /\ nEncode2' = nOldNumber[c - 1]
           /\ cathode1' = SN74141Inputs(nOldNumber[c + 2])
           /\ cathode2' = SN74141Inputs(nOldNumber[c - 1])
    /\ nScanStep' = nScanStep + 1
    /\ UNCHANGED <<scanFrame, pc, nNumber, fadeVars, anode, nSetInput,
                   bSetButtonPressed, nSetTimer, bSetMode, nPair, bPerDate, nDelayOut>>

\* the anode switched on, for delay(nFadeOut),
ScanAnodeOn ==
    /\ pc = "scan" /\ nScanStep % 4 = 1
    /\ anode' = AnodeWrite(anode, (nScanStep \div 4) + 1, TRUE)
    /\ nScanStep' = nScanStep + 1
    /\ UNCHANGED <<scanFrame, pc, nNumber, fadeVars, decoderVars, nSetInput,
                   bSetButtonPressed, nSetTimer, bSetMode, nPair, bPerDate, nDelayOut>>

\* SetSN74141 with the numbers, for delay(nFadeIn),
ScanSetNew ==
    /\ pc = "scan" /\ nScanStep % 4 = 2
    /\ \E c \in {(nScanStep \div 4) + 1} :
           /\ nEncode1' = nNumber[c + 2] /\ nEncode2' = nNumber[c - 1]
           /\ cathode1' = SN74141Inputs(nNumber[c + 2])
           /\ cathode2' = SN74141Inputs(nNumber[c - 1])
    /\ nScanStep' = nScanStep + 1
    /\ UNCHANGED <<scanFrame, pc, nNumber, fadeVars, anode, nSetInput,
                   bSetButtonPressed, nSetTimer, bSetMode, nPair, bPerDate, nDelayOut>>

\* and the anode switched off.
ScanAnodeOff ==
    /\ pc = "scan" /\ nScanStep % 4 = 3
    /\ anode' = AnodeWrite(anode, (nScanStep \div 4) + 1, FALSE)
    /\ nScanStep' = nScanStep + 1
    /\ UNCHANGED <<scanFrame, pc, nNumber, fadeVars, decoderVars, nSetInput,
                   bSetButtonPressed, nSetTimer, bSetMode, nPair, bPerDate, nDelayOut>>

\* After the three channels the fade counters are stepped and DisplayDigits
\* returns.
ScanFade ==
    /\ pc = "scan" /\ nScanStep = 12
    /\ \E dd \in {DisplayDigits(nNumber, nOldNumber, nFadeOut, nFadeSkip)} :
           /\ nFadeOut' = dd.nFadeOut
           /\ nFadeSkip' = dd.nFadeSkip
           /\ nOldNumber' = dd.nOldNumber
    /\ pc' = "main"
    /\ nScanStep' = 0
    /\ UNCHANGED <<scanFrame, nNumber, nFadeIn, decoderVars, anode, nSetInput,
                   bSetButtonPressed, nSetTimer, bSetMode, nPair, bPerDate, nDelayOut>>

\* ------------------------------------------------------------------------
\* loop(): one main cycle
\* ------------------------------------------------------------------------

\* One execution of loop() reading: mode, set, plus, minus, the levels of the
\* four button lines (0 = low = pressed); nPolls, the polls of the hold loop
\* when set is low; ms, what millis() returns.  The real time clock is read once
\* (the snapshot is rtc as the cycle finds it).  The plus and minus lines are
\* sampled at the top of loop() and again inside the SET mode block; plus and
\* minus are the samples the cycle acts on and leaves in nPlusInput and
\* nMinusInput (the second pair in SET mode, the first otherwise).
MainCycle(mode, set, nPolls, plus, minus, ms) ==
    /\ pc \in {"boot", "main"}
    /\ \E mb \in {ModeButton(bModeButtonPressed, bTimeMode, mode)},
          sb \in {SetButton(set, nPolls)},
          ab \in {AutoBST(ReadRealTimeClock, bAutoChange)} :
       \E sm \in {SetModeButtons(ab.k, sb, mb.bTimeMode, plus, minus)} :
       \E k \in {sm.k}, nBst \in {Len(ab.k.writes)} :
       \E co \in {Compose(k, mb.bTimeMode, sb.bSetMode, sm.nPair, sb.bPerDate, ms)} :
       \E dd \in {DisplayDigits(co.nNumber, nOldNumber, nFadeOut, nFadeSkip)} :
           /\ nAdjusts' = nAdjusts + (Len(k.writes) - nBst)
           /\ nModeInput' = mode
           /\ nSetInput' = sb.nSetInput
           /\ nPlusInput' = plus
           /\ nMinusInput' = minus
           /\ bModeButtonPressed' = mb.bModeButtonPressed
           /\ bTimeMode' = mb.bTimeMode
           /\ bSetButtonPressed' = sm.bSetButtonPressed
           /\ nSetTimer' = sb.nSetTimer
           /\ bSetMode' = sb.bSetMode
           /\ nPair' = sm.nPair
           /\ bPlusButtonPressed' = sm.bPlusButtonPressed
           /\ bMinusButtonPressed' = sm.bMinusButtonPressed
           /\ bAutoChange' = ab.bAutoChange
           /\ rtc' = k.rtc
           /\ nNow' = k.nNow
           /\ nYear' = k.nYear /\ nMonth' = k.nMonth /\ nDay' = k.nDay
           /\ nHour' = k.nHour /\ nMinute' = k.nMinute /\ nSecond' = k.nSecond
           /\ nDayOfTheWeek' = k.nDayOfTheWeek
           /\ nHourLo' = Digits(k, sb.bSetMode).nHourLo
           /\ nHourHi' = Digits(k, sb.bSetMode).nHourHi
           /\ millis' = ms
           /\ nRunTime' = ms
           /\ nBlinkTime' = co.nBlinkTime
           /\ bBlink' = co.bBlink
           /\ bPerDate' = co.bPerDate
           /\ nNumber' = co.nNumber
           /\ nFadeIn' = dd.nFadeIn
           /\ nFadeOut' = dd.nFadeOut
           /\ nFadeSkip' = dd.nFadeSkip
           /\ nOldNumber' = dd.nOldNumber
           /\ bLateChange' = LateChange(nFadeOut, co.nNumber # nNumber, bLateChange)
           /\ nFadeScans' = FadeScans(nFadeOut, co.nNumber # nOldNumber, nFadeScans)
           /\ nDelayOut' = dd.nDelayOut
           /\ nDriven' = IF CleanDue(k, sb.bSetMode) THEN [j \in 0..5 |-> {}] ELSE nDriven
           /\ bSetLow' = (set = 0)
           /\ rtcWrites' = k.writes
           /\ nBstWrites' = nBst
           /\ nEncode1' = co.nNumber[5] /\ nEncode2' = co.nNumber[2]
           /\ cathode1' = SN74141Inputs(co.nNumber[5])
           /\ cathode2' = SN74141Inputs(co.nNumber[2])
           /\ pc' = IF CleanDue(k, sb.bSetMode) THEN "clean" ELSE "main"
           /\ nSweeps' = nSweeps + (IF CleanDue(k, sb.bSetMode) THEN 1 ELSE 0)
           /\ nSweepNow' = IF CleanDue(k, sb.bSetMode) THEN k.nNow ELSE nSweepNow
    /\ UNCHANGED <<nTicks, nEventTime, jSweep, rtcMs, anodeVars>>

\* The real time clock counts n seconds.
Tick(n) ==
    /\ pc \in {"boot", "main"}
    /\ ValidDateTime(rtc)
    /\ rtc' = DateTimePlus(rtc, n)
    /\ nTicks' = nTicks + 1
    /\ UNCHANGED <<pc, millis, clockVars, nNumber, fadeVars, inputVars, pressedVars,
                   uiVars, histVars, decoderVars, hourVars, sweepVars, bLateChange,
                   nFadeScans, nDelayOut, nDriven, anodeVars>>

\* ------------------------------------------------------------------------
\* The cathode cleaning cycle (the end of loop() when CleanDue).
\* ------------------------------------------------------------------------

\* The time of a fade between blank and a number.
nFadeTime == ((3 * PERSIST) + 2) * FSKIP

\* The time one call of DisplayDigits takes: three pairs of tubes, each lit
\* for delay(nFadeOut) and delay(nFadeIn), nFadeOut + nFadeIn = PERSIST.
ScanMs == 3 * PERSIST

\* The numbers of step j of the cleaning cycle.
CleanNumbers(j) == [i \in 0..5 |-> IF i \in {3, 4, 5} THEN j ELSE 9 - j]

\* Mutant of WaitLoop: no correction of nEventTime when nRunTime has gone back
\* to zero (the wait is followed for 40 scans).
RECURSIVE WaitLoopNoReset(_, _)
WaitLoopNoReset(st, nWait) ==
    IF ULLess(st.nRunTime, ULAdd(st.nEventTime, ULong(nWait))) /\ st.n < 40
    THEN LET dd == DisplayDigits(st.nNumber, st.nOldNumber, st.nFadeOut, st.nFadeSkip)
             run == ULAdd(st.nRunTime, ULong(ScanMs))
         IN  CHOOSE r \in {WaitLoopNoReset(x, nWait) :
                              x \in {[st EXCEPT !.nOldNumber = dd.nOldNumber,
                                                !.nFadeIn = dd.nFadeIn,
                                                !.nDelayOut = dd.nDelayOut,
                                                !.nFadeOut = dd.nFadeOut,
                                                !.nFadeSkip = dd.nFadeSkip,
                                                !.nRunTime = run,
                                                !.n = @ + 1]}} : TRUE
    ELSE st

\* History of a scan: the numbers 0..9 each tube was lit with so far, the tube
\* showing old[j] for delayOut and num[j] for fadeIn milliseconds in this scan.
Driven(driven, old, delayOut, num, fadeIn) ==
    [j \in 0..5 |->
        driven[j] \cup (IF delayOut > 0 THEN {old[j]} \cap (0..9) ELSE {})
                  \cup (IF fadeIn > 0 THEN {num[j]} \cap (0..9) ELSE {})]

\* One pass of the body of a wait loop on the record st of its variables:
\*   DisplayDigits(); nRunTime = millis(); if (nRunTime < nEventTime) nEventTime = 0;
\* st.n counts the scans.
WaitScan(st) ==
    LET dd == DisplayDigits(st.nNumber, st.nOldNumber, st.nFadeOut, st.nFadeSkip)
        run == ULAdd(st.nRunTime, ULong(ScanMs))
    IN  [st EXCEPT !.nOldNumber = dd.nOldNumber,
                   !.nFadeIn = dd.nFadeIn,
                   !.nDelayOut = dd.nDelayOut,
                   !.nFadeOut = dd.nFadeOut,
                   !.nFadeSkip = dd.nFadeSkip,
                   !.nRunTime = run,
                   !.nEventTime = IF ULLess(run, @) THEN ULZero ELSE @,
                   !.bLateChange = LateChange(st.nFadeOut, FALSE, @),
                   !.nFadeScans = FadeScans(st.nFadeOut, st.nNumber # st.nOldNumber, @),
                   !.nDriven = Driven(@, st.nOldNumber, dd.nDelayOut, st.nNumber, dd.nFadeIn),
                   !.n = @ + 1]

\* while (nRunTime < nEventTime + nWait) { the body }: the record of the
\* variables when the loop is left (x is the record after one more pass).
RECURSIVE WaitLoop(_, _)
WaitLoop(st, nWait) ==
    IF ULLess(st.nRunTime, ULAdd(st.nEventTime, ULong(nWait)))
    THEN CHOOSE r \in {WaitLoop(x, nWait) : x \in {WaitScan(st)}} : TRUE
    ELSE st

\* One wait of the cleaning cycle: the numbers are set to num, nRunTime and
\* nEventTime to millis(), and the tubes are scanned for nWait milliseconds.
\* The real time clock, ms0 milliseconds past its last full second, counts
\* on while the wait lasts.  No button is read and the clock is not written.
SweepWait(num, nWait, ms0) ==
    \E st \in {WaitLoop([nNumber |-> num, nOldNumber |-> nOldNumber,
                         nFadeIn |-> nFadeIn, nFadeOut |-> nFadeOut,
                         nFadeSkip |-> nFadeSkip, nRunTime |-> millis,
                         nEventTime |-> millis, n |-> 0, nFadeScans |-> nFadeScans,
                         nDelayOut |-> nDelayOut, nDriven |-> nDriven,
                         bLateChange |-> LateChange(nFadeOut, num # nNumber, bLateChange)],
                        nWait)} :
    \E ms \in {ms0 + (ScanMs * st.n)} :
        /\ nNumber' = num
        /\ nOldNumber' = st.nOldNumber
        /\ nFadeIn' = st.nFadeIn
        /\ nFadeOut' = st.nFadeOut
        /\ nFadeSkip' = st.nFadeSkip
        /\ nRunTime' = st.nRunTime
        /\ nEventTime' = st.nEventTime
        /\ bLateChange' = st.bLateChange
        /\ nFadeScans' = st.nFadeScans
        /\ nDelayOut' = st.nDelayOut
        /\ nDriven' = st.nDriven
        /\ millis' = st.nRunTime
        /\ rtc' = IF ms >= 1000 THEN DateTimePlus(rtc, ms \div 1000) ELSE rtc
        /\ rtcMs' = ms % 1000
        /\ IF st.n > 0
           THEN /\ nEncode1' = num[5] /\ nEncode2' = num[2]
                /\ cathode1' = SN74141Inputs(num[5])
                /\ cathode2' = SN74141Inputs(num[2])
           ELSE UNCHANGED decoderVars
        /\ UNCHANGED <<clockVars, inputVars, pressedVars, bTimeMode, bSetMode, bBlink,
                       nPair, nSetTimer, nBlinkTime, bPerDate, bAutoChange, histVars,
                       nTicks, hourVars, nSweeps, nSweepNow, anodeVars>>

\* The cleaning cycle begins: the display fades to blank.  ms0 is how far the
\* real time clock is past the second of the snapshot.
SweepBegin(ms0) ==
    /\ pc = "clean"
    /\ SweepWait(Blank6, nFadeTime, ms0)
    /\ jSweep' = 0
    /\ pc' = "fadeOn"

\* Step j: the numbers fade on,
SweepFadeOn ==
    /\ pc = "fadeOn"
    /\ SweepWait(CleanNumbers(jSweep), nFadeTime, rtcMs)
    /\ pc' = "show"
    /\ UNCHANGED jSweep

\* are displayed for CLEAN milliseconds,
SweepShow ==
    /\ pc = "show"
    /\ SweepWait(nNumber, CLEAN, rtcMs)
    /\ pc' = "fadeOff"
    /\ UNCHANGED jSweep

\* and fade back to blank; after step 9 loop() returns.
SweepFadeOff ==
    /\ pc = "fadeOff"
    /\ SweepWait(Blank6, nFadeTime, rtcMs)
    /\ jSweep' = jSweep + 1
    /\ pc' = IF jSweep + 1 <= 9 THEN "fadeOn" ELSE "main"

\* ------------------------------------------------------------------------
\* Specifications
\* ------------------------------------------------------------------------

\* Polls of the set button's hold loop: the shortest press, the longest short
\* press, the shortest long press.
HoldPolls == {1, LongPressPolls - 1, LongPressPolls}

\* The levels <<mode, set, plus, minus>> read in one cycle: no button, one
\* button, or plus and minus together.
Presses ==
    {<<1, 1, 1, 1>>, <<0, 1, 1, 1>>, <<1, 0, 1, 1>>, <<1, 1, 0, 1>>, <<1, 1, 1, 0>>,
     <<1, 1, 0, 0>>}

\* A main cycle reading one of `presses`, the set button held for one of
\* `holds` polls, the millisecond counter advanced by one of `steps`.
CycleOf(presses, holds, steps) ==
    \E in \in presses, step \in steps :
        \E nPolls \in (IF in[2] = 0 THEN holds ELSE {0}) :
            MainCycle(in[1], in[2], nPolls, in[3], in[4], ULAdd(millis, step))

\* Spec: the four buttons, the real time clock standing at 2010-10-10 10:10:10
\* (a Sunday) until it is adjusted; the millisecond counter is not followed
\* (millis() returns 0 in every cycle, so no blink event happens).
StartTimes == {DateTime(2010, 10, 10, 10, 10, 10)}

Init == \E t0 \in StartTimes : InitAt(t0)

Cycle ==
    /\ nAdjusts < MaxAdjusts
    /\ CycleOf(Presses, HoldPolls, {ULZero})

Next == Cycle

Spec == Init /\ [][Next]_vars

\* SpecHold: as Spec, the set button held for 69, 70, 699 or 700 polls (690 ms,
\* 700 ms, 6.99 s, 7 s).
HoldPollsWide ==
    {LongPressPolls - 1, LongPressPolls, PollMs * LongPressPolls - 1,
     PollMs * LongPressPolls}

CycleHold ==
    /\ nAdjusts < MaxAdjusts
    /\ CycleOf(Presses, HoldPollsWide, {ULZero})

NextHold == CycleHold

SpecHold == Init /\ [][NextHold]_vars

\* SpecOverlay: the mode and set buttons around the start of the periodic
\* date display, the real time clock started at 2010-10-10 10:13:01 and
\* counting seconds.
PressesOverlay == {<<1, 1, 1, 1>>, <<0, 1, 1, 1>>, <<1, 0, 1, 1>>}

InitOverlay == InitAt(DateTime(2010, 10, 10, 10, 13, 1))

CycleOverlay == CycleOf(PressesOverlay, {1, LongPressPolls}, {ULZero})

TickOverlay == nTicks < MaxTicks /\ Tick(1)

NextOverlay == CycleOverlay \/ TickOverlay

SpecOverlay == InitOverlay /\ [][NextOverlay]_vars

\* SpecAdjust: as Spec, from a date in October, in December and in January.
StartTimesAdjust ==
    {DateTime(2010, 10, 10, 10, 10, 10), DateTime(2012, 12, 12, 12, 12, 12),
     DateTime(2010, 1, 10, 10, 1, 10)}

InitAdjust == \E t0 \in StartTimesAdjust : InitAt(t0)

CycleAdjust ==
    /\ nAdjusts < MaxAdjusts
    /\ CycleOf(Presses, {1, LongPressPolls}, {ULZero})

NextAdjust == CycleAdjust

SpecAdjust == InitAdjust /\ [][NextAdjust]_vars

\* SpecBst: the set and minus buttons around the change to summer time, the
\* real time clock started at 00:59:59 on Sunday 2022-03-27 and counting
\* seconds or hours; after the last manual adjustment the cycles go on with
\* no button pressed.
PressesBst == {<<1, 1, 1, 1>>, <<1, 0, 1, 1>>, <<1, 1, 1, 0>>}

InitBst == InitAt(DateTime(2022, 3, 27, 0, 59, 59))

CycleBst ==
    \/ nAdjusts < MaxAdjusts /\ CycleOf(PressesBst, {1, LongPressPolls}, {ULZero})
    \/ nAdjusts >= MaxAdjusts /\ CycleOf({<<1, 1, 1, 1>>}, {}, {ULZero})

TickBst == nTicks < MaxTicks /\ \E n \in {nSecondSpan, nHourSpan} : Tick(n)

NextBst == CycleBst \/ TickBst

SpecBst == InitBst /\ [][NextBst]_vars

\* SpecFall: the mode and set buttons around the change back to winter time,
\* the real time clock started at 02:00:00 on Sunday 2022-10-30 and counting
\* seconds or hours.
InitFall == InitAt(DateTime(2022, 10, 30, 2, 0, 0))

CycleFall == CycleOf(PressesOverlay, {1, LongPressPolls}, {ULZero})

TickFall == nTicks < MaxTicks /\ \E n \in {nSecondSpan, nHourSpan} : Tick(n)

NextFall == CycleFall \/ TickFall

SpecFall == InitFall /\ [][NextFall]_vars

\* SpecEncoder: one call of SetSN74141 with any two bytes.
Byte == 0..255

InitEncoder ==
    \E e1 \in Byte, e2 \in Byte :
        InitWith(DateTime(2010, 10, 10, 10, 10, 10), "encode", e1, e2)

NextEncoder == SetSN74141

SpecEncoder == InitEncoder /\ [][NextEncoder]_vars

\* SpecPerDate: DISPLAY and TIME mode from 10:13:00 on 2034-12-25, the real
\* time clock counting seconds, every second observed by at least one cycle
\* (a cycle takes about 21 ms, a short press of the set button less than
\* 700 ms); the set, plus and minus buttons are pressed, none of which leaves
\* DISPLAY or TIME mode.
PressesPerDate == {<<1, 1, 1, 1>>, <<1, 0, 1, 1>>, <<1, 1, 0, 1>>, <<1, 1, 1, 0>>}

InitPerDate == InitAt(DateTime(2034, 12, 25, 10, 13, 0))

CyclePerDate == CycleOf(PressesPerDate, {1, LongPressPolls - 1}, {ULZero})

TickPerDate ==
    /\ nTicks < MaxSeconds
    /\ pc = "main" /\ nSecond = rtc.ss
    /\ Tick(nSecondSpan)

NextPerDate == CyclePerDate \/ TickPerDate

SpecPerDate == InitPerDate /\ [][NextPerDate]_vars

\* SpecHour: the set button (a short press of 50 polls or a long press of 70)
\* with the millisecond counter running: a cycle takes the time of its hold
\* loop (10 ms a poll) and 0 or 501 ms more; the real time clock is started
\* one second before 00:00, 01:00, 13:00 and 14:00 and counts seconds.
StartTimesHour ==
    {DateTime(2034, 12, 25, 23, 59, 59), DateTime(2034, 12, 25, 0, 59, 59),
     DateTime(2034, 12, 25, 12, 59, 59), DateTime(2034, 12, 25, 13, 59, 59)}

InitHour == \E t0 \in StartTimesHour : InitAt(t0)

CycleHour ==
    /\ ULLess(millis, ULong(MaxMillis))
    /\ \E set \in {0, 1}, step \in {0, BlinkMs + 1} :
          \E nPolls \in (IF set = 0 THEN {50, LongPressPolls} ELSE {0}) :
              MainCycle(1, set, nPolls, 1, 1,
                        ULAdd(millis, ULong(PollMs * nPolls + step)))

TickHour == nTicks < MaxTicks /\ Tick(nSecondSpan)

NextHour == CycleHour \/ TickHour

SpecHour == InitHour /\ [][NextHour]_vars

\* SpecCells: the mode and set buttons from 17:43:01 on 2034-12-25 (the start
\* of the periodic date display), the real time clock counting seconds.
InitCells == InitAt(DateTime(2034, 12, 25, 17, 43, 1))

CycleCells == CycleOf(PressesOverlay, {1, LongPressPolls}, {ULZero})

TickCells == nTicks < MaxTicks /\ Tick(nSecondSpan)

NextCells == CycleCells \/ TickCells

SpecCells == InitCells /\ [][NextCells]_vars

\* SpecClean: the mode and set buttons from 10:15:00 on 2010-10-10, the real
\* time clock counting seconds; the cleaning cycle, triggered at 10:15:01,
\* begins 0, 500 or 999 ms after that second began.
SubSeconds == {0, 500, 999}

InitClean == InitAt(DateTime(2010, 10, 10, 10, 15, 0))

CycleClean == CycleOf(PressesOverlay, {1, LongPressPolls}, {ULZero})

TickClean == nTicks < MaxTicks /\ Tick(nSecondSpan)

SweepClean ==
    \/ \E ms0 \in SubSeconds : SweepBegin(ms0)
    \/ SweepFadeOn
    \/ SweepShow
    \/ SweepFadeOff

NextClean == CycleClean \/ TickClean \/ SweepClean

SpecClean == InitClean /\ [][NextClean]_vars

\* SpecHourly: DISPLAY mode, the real time clock counting every second from
\* 10:05:00 on 2010-10-10 (each second is seen by a main cycle before the next
\* begins) for MaxClock seconds; the mode button is used in the first MaxTicks
\* seconds, which leaves the clock in TIME or in DATE mode.
PressesHourly == {<<1, 1, 1, 1>>, <<0, 1, 1, 1>>}

InitHourly == InitAt(DateTime(2010, 10, 10, 10, 5, 0))

CycleHourly ==
    \/ nTicks < MaxTicks /\ CycleOf(PressesHourly, {0}, {ULZero})
    \/ nTicks >= MaxTicks /\ CycleOf({<<1, 1, 1, 1>>}, {0}, {ULZero})

TickHourly == nTicks < MaxClock /\ nNow = rtc /\ Tick(nSecondSpan)

SweepHourly ==
    \/ SweepBegin(0)
    \/ SweepFadeOn
    \/ SweepShow
    \/ SweepFadeOff

NextHourly == CycleHourly \/ TickHourly \/ SweepHourly

SpecHourly == InitHourly /\ [][NextHourly]_vars

\* SpecBlink: the mode and set buttons (a short press of 50 polls or a long
\* press of 70) with the millisecond counter running (a cycle takes the time
\* of its hold loop, 10 ms a poll, and 0 or 501 ms more), the
\* real time clock counting seconds from 10:10:10 on 2010-10-10.
InitBlink == InitAt(DateTime(2010, 10, 10, 10, 10, 10))

CycleBlink ==
    /\ ULLess(millis, ULong(MaxMillis))
    /\ \E in \in PressesOverlay, step \in {0, BlinkMs + 1} :
          \E nPolls \in (IF in[2] = 0 THEN {50, LongPressPolls} ELSE {0}) :
              MainCycle(in[1], in[2], nPolls, in[3], in[4],
                        ULAdd(millis, ULong(PollMs * nPolls + step)))

TickBlink == nTicks < MaxTicks /\ Tick(nSecondSpan)

NextBlink == CycleBlink \/ TickBlink

SpecBlink == InitBlink /\ [][NextBlink]_vars

\* SpecWrap: the millisecond counter next to its wraparound.  After the first
\* main cycle the clock idles in DISPLAY mode until the counter is WrapLead
\* milliseconds before 2^32 (a main cycle without buttons that reads this
\* value stands for the idle cycles of 49 days); from then on the mode button
\* and long presses of the set button, a cycle taking the time of its hold loop
\* and one scan or 501 ms more, until the counter has wrapped.
WrapStarts == {ULSub(ULZero, ULong(WrapLead))}

InitWrap == InitAt(DateTime(2010, 10, 10, 10, 10, 10))

CycleWrap ==
    \/ pc = "boot" /\ CycleOf({<<1, 1, 1, 1>>}, {0}, {ULZero})
    \/ pc = "main" /\ millis = ULZero /\ CycleOf({<<1, 1, 1, 1>>}, {0}, WrapStarts)
    \/ /\ millis[1] = Half - 1
       /\ \E in \in PressesOverlay, step \in {ScanMs, BlinkMs + 1} :
             \E nPolls \in (IF in[2] = 0 THEN {LongPressPolls} ELSE {0}) :
                 MainCycle(in[1], in[2], nPolls, in[3], in[4],
                           ULAdd(millis, ULong(PollMs * nPolls + step)))

NextWrap == CycleWrap

SpecWrap == InitWrap /\ [][NextWrap]_vars

\* SpecSweepWrap: a cleaning cycle with the millisecond counter next to its
\* wraparound.  The real time clock goes from 10:15:00 to 10:15:01 after the
\* first main cycle; the main cycle that sees 10:15:01 reads the counter 1, 5,
\* 9, ... up to MaxLead milliseconds before 2^32 (the clock has idled in
\* DISPLAY mode for 49 days), so that the counter wraps in the first fade to
\* blank or in one of the three waits of step 0 of the cleaning cycle, at every
\* offset modulo the 21 ms of a scan.  The waits are loops of the program and
\* are executed when reached.  While the counter has not wrapped when the
\* cleaning cycle returns, loop() runs again, one scan later.
LeadStep == 4

SweepLeads == {ULSub(ULZero, ULong(n)) : n \in {m \in 1..MaxLead : m % LeadStep = 1}}

InitSweepWrap == InitAt(DateTime(2010, 10, 10, 10, 15, 0))

CycleSweepWrap ==
    \/ pc = "boot" /\ CycleOf({<<1, 1, 1, 1>>}, {0}, {ULZero})
    \/ pc = "main" /\ nTicks = 1 /\ millis = ULZero
                   /\ CycleOf({<<1, 1, 1, 1>>}, {0}, SweepLeads)
    \/ pc = "main" /\ nSweeps > 0 /\ millis[1] = Half - 1
                   /\ CycleOf({<<1, 1, 1, 1>>}, {0}, {ULong(ScanMs)})

TickSweepWrap == pc = "main" /\ nTicks = 0 /\ Tick(nSecondSpan)

SweepSweepWrap ==
    \/ SweepBegin(0)
    \/ SweepFadeOn
    \/ SweepShow
    \/ SweepFadeOff

NextSweepWrap == CycleSweepWrap \/ TickSweepWrap \/ SweepSweepWrap

SpecSweepWrap == InitSweepWrap /\ [][NextSweepWrap]_vars /\ WF_vars(SweepSweepWrap)

\* SpecScan: DisplayDigits executed statement by statement, called with one of
\* three displays (blank, 0..5 and 9..4 on the tubes 0..5) after loop() or a
\* wait of the cleaning cycle changed the numbers or left them alone; before a
\* scan the set button may be held for up to MaxHold polls.
ScanNumbers == {Blank6, [j \in 0..5 |-> j], [j \in 0..5 |-> 9 - j]}

InitScan == InitWith(DateTime(2010, 10, 10, 10, 10, 10), "main", 0, 0)

HoldScan ==
    \/ HoldBegin
    \/ \E set \in (IF nSetTimer + 1 < MaxHold THEN {0, 1} ELSE {1}) : HoldPoll(set)

StepScan ==
    \/ \E num \in ScanNumbers : ScanEnter(num)
    \/ ScanSetOld
    \/ ScanAnodeOn
    \/ ScanSetNew
    \/ ScanAnodeOff
    \/ ScanFade

NextScan == HoldScan \/ StepScan

SpecScan == InitScan /\ [][NextScan]_vars

\* SpecSwitch: DISPLAY mode from 10:13:00 on 2034-12-25 with the mode button,
\* the real time clock counting seconds, every second observed by at least
\* one cycle (a cycle takes about 21 ms).
PressesSwitch == {<<1, 1, 1, 1>>, <<0, 1, 1, 1>>}

InitSwitch == InitAt(DateTime(2034, 12, 25, 10, 13, 0))

CycleSwitch == CycleOf(PressesSwitch, {0}, {ULZero})

TickSwitch ==
    /\ nTicks < MaxSeconds
    /\ pc = "main" /\ nSecond = rtc.ss
    /\ Tick(nSecondSpan)

NextSwitch == CycleSwitch \/ TickSwitch

SpecSwitch == InitSwitch /\ [][NextSwitch]_vars

\* A step of MainCycle (the other steps are ticks of the real time clock).
IsMainCycle == pc \in {"boot", "main"} /\ nTicks' = nTicks

\* ------------------------------------------------------------------------
\* History of a cycle
\* ------------------------------------------------------------------------

\* The manual adjustments of the cycle just ended: the rtc.adjust calls after
\* those of the AUTO_BST block.
ManualWrites == SubSeq(rtcWrites, nBstWrites + 1, Len(rtcWrites))

PlusWrites == SelectSeq(ManualWrites, LAMBDA w : w.bAdvance)

MinusWrites == SelectSeq(ManualWrites, LAMBDA w : ~w.bAdvance)

\* The measured press of the cycle just ended, in milliseconds (10 ms a poll).
HoldMs == PollMs * nSetTimer

\* ------------------------------------------------------------------------
\* The claims
\* ------------------------------------------------------------------------

\* C1: a run of cycles that sample the mode line low, then a cycle that samples
\* it high, toggles TIME/DATE exactly once, in the cycle of the release: no
\* cycle that samples the line low changes TIME/DATE, the first cycle that
\* samples it high after a low sample toggles it, and a cycle that samples it
\* high after a high sample (or as the first sample) leaves it.
C1_ModeToggleOnRelease ==
    [][IsMainCycle =>
        /\ (nModeInput' = 0 => bTimeMode' = bTimeMode)
        /\ (pc = "main" /\ nModeInput = 0 /\ nModeInput' = 1
               => bTimeMode' = ~bTimeMode)
        /\ ((pc = "boot" \/ nModeInput = 1) /\ nModeInput' = 1
               => bTimeMode' = bTimeMode)]_vars

\* C1 witness: DATE mode, entered by a release of the mode button.
C1_Witness == pc = "main" /\ ~bTimeMode /\ nModeInput = 1 /\ ~bModeButtonPressed

\* C2: a cycle whose set button press measures 700 ms or more toggles
\* SET/DISPLAY (once: the mode after the cycle is the other one), a cycle
\* whose press measures less, or that finds the set line high, leaves it.
C2_LongPressToggles ==
    [][IsMainCycle =>
        /\ (bSetLow' /\ HoldMs' >= 700 => bSetMode' = ~bSetMode)
        /\ (bSetLow' /\ HoldMs' < 700 => bSetMode' = bSetMode)
        /\ (~bSetLow' => bSetMode' = bSetMode)]_vars

\* C2 witness: SET mode left again by a second long press.
C2_Witness ==
    pc = "main" /\ ~bSetMode /\ bSetLow /\ HoldMs >= 700 /\ bSetButtonPressed

\* C3 as stated: a hold of 699 polls is short (SET/DISPLAY is left as it was)
\* and a hold of 700 polls or more is long (SET/DISPLAY is toggled).
C3_Polls699Short ==
    [][IsMainCycle =>
        /\ (bSetLow' /\ nSetTimer' = 699 => bSetMode' = bSetMode)
        /\ (bSetLow' /\ nSetTimer' >= 700 => bSetMode' = ~bSetMode)]_vars

\* C3: the threshold is 70 polls of 10 ms: a hold of 69 polls (690 ms) is
\* short and leaves SET/DISPLAY, a hold of 70 polls or more (699 and 700
\* polls among them) is long and toggles SET/DISPLAY.
C3_Polls69Short ==
    [][IsMainCycle =>
        /\ (bSetLow' /\ nSetTimer' = 69 => bSetMode' = bSetMode)
        /\ (bSetLow' /\ nSetTimer' >= 70 => bSetMode' = ~bSetMode)
        /\ (bSetLow' /\ nSetTimer' = 699 => bSetMode' = ~bSetMode)]_vars

\* C3 witness: a hold of 699 polls has switched DISPLAY to SET.
C3_Witness == pc = "main" /\ bSetLow /\ nSetTimer = 699 /\ bSetMode /\ nAdjusts = 0

\* C4: in SET mode a short press of the set button moves the selected pair one
\* step in the order 1, 2, 3, 1 and stays in SET mode, and a cycle that finds
\* the set line high leaves the pair; in DISPLAY mode a short press changes
\* neither the pair nor SET/DISPLAY.
C4_ShortPressNextPair ==
    [][IsMainCycle =>
        /\ (bSetMode /\ bSetLow' /\ ~IsLongPress(nSetTimer')
               => /\ bSetMode'
                  /\ nPair' = (IF nPair = 1 THEN 2 ELSE IF nPair = 2 THEN 3 ELSE 1))
        /\ (bSetMode /\ ~bSetLow' => nPair' = nPair)
        /\ (~bSetMode /\ bSetLow' /\ ~IsLongPress(nSetTimer')
               => ~bSetMode' /\ nPair' = nPair)]_vars

\* C4 witness: a short press in SET mode has wrapped the pair from 3 to 1.
C4_Witness ==
    pc = "main" /\ bSetMode /\ bSetLow /\ ~IsLongPress(nSetTimer) /\ nPair = 1

\* C5: a long press that switches DISPLAY to SET leaves the selected pair at 1
\* at the end of that cycle.  (The code advances the pair in that cycle.)
C5_EnterSetKeepsPair1 ==
    [][IsMainCycle /\ ~bSetMode /\ bSetMode' => nPair' = 1]_vars

\* C6: in DISPLAY mode the selected pair is 1 at the end of every cycle; the
\* cycle whose long press leaves SET mode ends with pair 1 and with bPerDate
\* cleared (it is TRUE after that cycle only if the periodic date display
\* starts in this very cycle: TIME mode, minute low digit 3, second 1); a
\* cycle that starts and ends in DISPLAY mode leaves the pair.
C6_DisplayPairIs1 ==
    /\ [](~bSetMode => nPair = 1)
    /\ [][IsMainCycle /\ bSetMode /\ ~bSetMode'
            => /\ nPair' = 1
               /\ bPerDate' = (bTimeMode' /\ nMinute' % 10 = 3 /\ nSecond' = 1)]_vars
    /\ [][~bSetMode /\ ~bSetMode' => nPair' = nPair]_vars

\* C6 witness: a long press has left SET mode inside the window of the
\* periodic date display (seconds 2..9) and the flag is clear.
C6_Witness ==
    /\ pc = "main" /\ ~bSetMode /\ bSetLow /\ IsLongPress(nSetTimer)
    /\ bTimeMode /\ nMinute % 10 = 3 /\ nSecond \in 2..9
    /\ nPair = 1 /\ ~bPerDate

\* The snapshot s changed by nSpan seconds, forward or backward.
ShiftedBy(s, dt, bAdvance, nSpan) ==
    /\ ValidDateTime(dt)
    /\ SecondsTime(dt) = SecondsTime(s) + (IF bAdvance THEN nSpan ELSE 0 - nSpan)

\* The month after (before) month m of the same year, 12 and 1 being neighbours.
MonthStep(m, bAdvance) ==
    IF bAdvance THEN (IF m = 12 THEN 1 ELSE m + 1) ELSE (IF m = 1 THEN 12 ELSE m - 1)

\* Write w is the date and time s changed by one unit of the field that pair
\* selects in TIME mode (bTime) or DATE mode.  The year is meant from 2001 to
\* 2098, the years whose neighbours the real time clock can hold.
OneUnit(s, w, pair, bTime) ==
    IF bTime
    THEN /\ pair = 1 => ShiftedBy(s, w.dt, w.bAdvance, 3600)
                         /\ w.dt.mm = s.mm /\ w.dt.ss = s.ss
                         /\ w.dt.hh = (s.hh + (IF w.bAdvance THEN 1 ELSE 23)) % 24
         /\ pair = 2 => ShiftedBy(s, w.dt, w.bAdvance, 60)
                         /\ w.dt.ss = s.ss
                         /\ w.dt.mm = (s.mm + (IF w.bAdvance THEN 1 ELSE 59)) % 60
         /\ pair = 3 => ShiftedBy(s, w.dt, w.bAdvance, 1)
                         /\ w.dt.ss = (s.ss + (IF w.bAdvance THEN 1 ELSE 59)) % 60
    ELSE /\ pair = 1 => ShiftedBy(s, w.dt, w.bAdvance, 86400)
                         /\ w.dt.hh = s.hh /\ w.dt.mm = s.mm /\ w.dt.ss = s.ss
         /\ pair = 2 => w.dt = [s EXCEPT !.m = MonthStep(s.m, w.bAdvance)]
         /\ pair = 3 /\ s.yOff \in 1..98
                      => w.dt = [s EXCEPT !.yOff = IF w.bAdvance THEN @ + 1 ELSE @ - 1]

C8_MonthWraps ==
    [][IsMainCycle /\ ~bTimeMode' /\ nPair' = 2 =>
        \A i \in 1..Len(ManualWrites') :
            LET w == ManualWrites'[i]
                before == IF i = 1 THEN rtc.m ELSE ManualWrites'[i - 1].dt.m
            IN  /\ w.dt.m \in 1..12
                /\ w.dt.yOff = rtc.yOff
                /\ w.dt.d = rtc.d /\ w.dt.hh = rtc.hh
                /\ w.dt.mm = rtc.mm /\ w.dt.ss = rtc.ss
                /\ (w.bAdvance /\ before = 12 => w.dt.m = 1)
                /\ (~w.bAdvance /\ before = 1 => w.dt.m = 12)
                /\ (w.bAdvance /\ before # 12 => w.dt.m = before + 1)
                /\ (~w.bAdvance /\ before # 1 => w.dt.m = before - 1)]_vars

\* C8 witness: plus at pair 2 in DATE mode has advanced December 2012 to
\* January 2012.
C8_Witness ==
    /\ bSetMode /\ ~bTimeMode /\ nPair = 2 /\ Len(PlusWrites) = 1
    /\ nMonth = 1 /\ rtc = DateTime(2012, 1, 12, 12, 12, 12)

\* The snapshot of the cycle is the trigger of the change to summer time.
SpringTrigger ==
    /\ DayOfTheWeek(rtc) = 0 /\ rtc.d >= 25 /\ rtc.m = 3
    /\ rtc.hh = 1 /\ rtc.mm = 0 /\ rtc.ss = 0

\* C10: a cycle whose snapshot is (Sunday, day >= 25, March, 01:00:00) with
\* the latch clear makes one automatic write, the snapshot plus one hour,
\* and sets the latch; no cycle that starts with the latch set makes an
\* automatic write, whatever the snapshot, SET/DISPLAY and the pair are; the
\* latch stays set in every cycle whose snapshot hour is not 3; no cycle in
\* March without the trigger makes an automatic write.
C10_SpringOnce ==
    [][IsMainCycle =>
        /\ (SpringTrigger /\ ~bAutoChange
               => /\ nBstWrites' = 1
                  /\ rtcWrites'[1].dt = [rtc EXCEPT !.hh = 2]
                  /\ rtcWrites'[1].bAdvance
                  /\ bAutoChange')
        /\ (bAutoChange => nBstWrites' = 0)
        /\ (bAutoChange /\ rtc.hh # 3 => bAutoChange')
        /\ (rtc.m = 3 /\ ~SpringTrigger => nBstWrites' = 0)]_vars

\* C10 witness: the clock was put back to 01:00:00 on the Sunday of the change
\* after the automatic change; the cycle that took this snapshot had the
\* latch set and wrote nothing.
C10_Witness ==
    /\ pc = "main" /\ bAutoChange /\ rtcWrites = <<>>
    /\ nDayOfTheWeek = 0 /\ nDay = 27 /\ nMonth = 3
    /\ nHour = 1 /\ nMinute = 0 /\ nSecond = 0

\* The snapshot of the cycle is the trigger of the change back to winter time.
FallTrigger ==
    /\ DayOfTheWeek(rtc) = 0 /\ rtc.d >= 25 /\ rtc.m = 10
    /\ rtc.hh = 2 /\ rtc.mm = 0 /\ rtc.ss = 0

\* C11: a cycle whose snapshot is (Sunday, day >= 25, October, 02:00:00) with
\* the latch clear makes one automatic write, the snapshot minus one hour,
\* and sets the latch; a cycle that observes 02:00:00 again with the latch set
\* writes nothing and keeps the latch; a cycle in October without the trigger
\* makes no automatic write; the latch is cleared in a cycle exactly when it
\* was set and the snapshot hour is 3.
C11_FallOnce ==
    [][IsMainCycle =>
        /\ (FallTrigger /\ ~bAutoChange
               => /\ nBstWrites' = 1
                  /\ rtcWrites'[1].dt = [rtc EXCEPT !.hh = 1]
                  /\ ~rtcWrites'[1].bAdvance
                  /\ bAutoChange')
        /\ (FallTrigger /\ bAutoChange => nBstWrites' = 0 /\ bAutoChange')
        /\ (rtc.m = 10 /\ ~FallTrigger => nBstWrites' = 0)
        /\ (bAutoChange => (~bAutoChange' <=> rtc.hh = 3))]_vars

\* C11 witness: 02:00:00 was observed again, one hour after the automatic
\* change, with the latch set, and nothing was written.
C11_Witness ==
    /\ pc = "main" /\ bAutoChange /\ rtcWrites = <<>> /\ nTicks >= 1
    /\ nDayOfTheWeek = 0 /\ nDay = 30 /\ nMonth = 10
    /\ nHour = 2 /\ nMinute = 0 /\ nSecond = 0

\* The binary code of n on the lines: a is the least significant bit.
BinaryCode(n) ==
    Lines(n % 2, (n \div 2) % 2, (n \div 4) % 2, (n \div 8) % 2)

\* C12: after a call of SetSN74141 each decoder has on its lines a, b, c, d
\* the binary code of its argument (a the least significant bit) when the
\* argument is 0..9 and four high levels when it is 10 (TOFF) or more; two
\* different digits never give the same levels; both decoders follow the
\* same mapping (equal arguments give equal levels).
C12_EncoderTruthTable ==
    pc = "encoded" =>
        /\ (nEncode1 <= 9 => cathode1 = BinaryCode(nEncode1))
        /\ (nEncode2 <= 9 => cathode2 = BinaryCode(nEncode2))
        /\ (nEncode1 > 9 => cathode1 = Lines(1, 1, 1, 1))
        /\ (nEncode2 > 9 => cathode2 = Lines(1, 1, 1, 1))
        /\ (nEncode1 <= 9 /\ nEncode2 <= 9 /\ nEncode1 # nEncode2
               => cathode1 # cathode2)
        /\ (nEncode1 = nEncode2 => cathode1 = cathode2)

\* C12 witness: digit 9 on the first decoder (a and d high), blank on the
\* second.
C12_Witness ==
    /\ pc = "encoded" /\ nEncode1 = 9 /\ nEncode2 = TOFF
    /\ cathode1 = Lines(1, 0, 0, 1) /\ cathode2 = Lines(1, 1, 1, 1)

\* C13 as stated: at the end of every scan the old numbers equal the current
\* numbers exactly when the fade out counter is 0, never while it is nonzero.
C13_OldEqualsIffZero == (nFadeOut = 0) <=> (nOldNumber = nNumber)

\* C13: a scan that finds the fade out counter 0 and a changed number ends
\* with the counter at PERSIST = 7, a scan that finds it 0 and no change
\* leaves it 0; a nonzero counter stays or goes down by one in a scan; the old
\* numbers are overwritten only in the scan that brings the counter to 0, with
\* the current numbers; so at the end of every scan a counter of 0 implies
\* old numbers = current numbers.  (While the counter is nonzero the old
\* numbers are those shown before the fade; they differ from the current
\* numbers unless the numbers changed back during the fade.)
C13_FadeOutCounter ==
    /\ [](nFadeOut = 0 => nOldNumber = nNumber)
    /\ [](nFadeOut \in 0..PERSIST)
    /\ [][IsMainCycle =>
            /\ (nFadeOut = 0 /\ nOldNumber # nNumber' => nFadeOut' = 7)
            /\ (nFadeOut = 0 /\ nOldNumber = nNumber' => nFadeOut' = 0)
            /\ (nFadeOut > 0 => nFadeOut' \in {nFadeOut, nFadeOut - 1})
            /\ (nOldNumber' # nOldNumber
                   => nFadeOut' = 0 /\ nFadeOut = 1 /\ nOldNumber' = nNumber')
            /\ (nFadeOut' > 0 /\ nFadeOut > 0 => nOldNumber' = nOldNumber)]_vars

\* C13 witness: a fade has just ended, the old numbers were overwritten with
\* the numbers of the date (10 10 10).
C13_Witness ==
    /\ pc = "main" /\ nFadeOut = 0 /\ nFadeIn = PERSIST - 1
    /\ nOldNumber = nNumber /\ nNumber = [j \in 0..5 |-> IF j \in {3, 4, 5} THEN 1 ELSE 0]

\* The cells 0..5 for the date dt: year low, day low, month low, month high,
\* year high, day high (the year modulo 100).
DateCells(dt) ==
    [j \in 0..5 |->
        CASE j = 0 -> (YearOf(dt) % 100) % 10
          [] j = 1 -> dt.d % 10
          [] j = 2 -> dt.m % 10
          [] j = 3 -> dt.m \div 10
          [] j = 4 -> (YearOf(dt) % 100) \div 10
          [] j = 5 -> dt.d \div 10]

\* C14: in DISPLAY and TIME mode, every second observed by a cycle: the cycle
\* that observes minute low digit 3 and second 1 ends with the overlay
\* active; every cycle that observes second 1..9 of that minute ends with it
\* active and with the six cells showing the date; the cycle that observes
\* second 10 ends with it inactive; the overlay goes from active to inactive
\* only in a cycle that observes second 10, and from inactive to active only
\* in a cycle that observes second 1.
C14_OverlayWindow ==
    /\ [](pc = "main" => ~bSetMode /\ bTimeMode)
    /\ [](pc = "main" /\ nMinute % 10 = 3 /\ nSecond \in 1..9
            => bPerDate /\ nNumber = DateCells(nNow))
    /\ [](pc = "main" /\ nMinute % 10 = 3 /\ nSecond \in {0, 10, 11} => ~bPerDate)
    /\ [][IsMainCycle =>
            /\ (~bPerDate /\ bPerDate' => nMinute' % 10 = 3 /\ nSecond' = 1)
            /\ (bPerDate /\ ~bPerDate' => nMinute' % 10 = 3 /\ nSecond' = 10)]_vars

\* C14 witness: the overlay is active at second 9 and shows 25 12 34.
C14_Witness ==
    /\ pc = "main" /\ bPerDate /\ nSecond = 9 /\ nMinute = 13
    /\ nNumber[5] = 2 /\ nNumber[1] = 5 /\ nNumber[3] = 1 /\ nNumber[2] = 2
    /\ nNumber[4] = 3 /\ nNumber[0] = 4

\* The hour value of the two hour digits.
HourRendered == 10 * nHourHi + nHourLo

\* C15: after every cycle in DISPLAY mode the hour digits are those of h for
\* h <= 12 and of h - 12 for h > 12 (0 for hour 0), and in TIME mode outside the
\* date overlay the cells 5 and 1 hold them and the cells 3, 2, 4, 0 the
\* digits of minute and second (13:59:59 gives 0 1, 5 9, 5 9); after every
\* cycle in SET mode the hour digits are those of the 24 hour value; the
\* cycle that enters SET mode and every SET mode cycle with a blink event puts
\* them into the cells 5 and 1 (or blanks these, when pair 1 is selected and
\* the blink flag is off).
C15_HourDigits ==
    /\ [](pc = "main" /\ ~bSetMode
            => /\ nHourLo \in 0..9
               /\ HourRendered = (IF nHour <= 12 THEN nHour ELSE nHour - 12))
    /\ [](pc = "main" /\ ~bSetMode /\ bTimeMode /\ ~bPerDate
            => /\ nNumber[5] = nHourHi /\ nNumber[1] = nHourLo
               /\ 10 * nNumber[3] + nNumber[2] = nMinute /\ nNumber[2] \in 0..9
               /\ 10 * nNumber[4] + nNumber[0] = nSecond /\ nNumber[0] \in 0..9)
    /\ [](pc = "main" /\ ~bSetMode /\ nHour = 13 /\ nMinute = 59 /\ nSecond = 59
            => nNumber = [j \in 0..5 |->
                            CASE j = 5 -> 0 [] j = 1 -> 1 [] j = 3 -> 5 [] j = 2 -> 9
                              [] j = 4 -> 5 [] j = 0 -> 9])
    /\ [](pc = "main" /\ bSetMode => nHourLo \in 0..9 /\ HourRendered = nHour)
    /\ [][IsMainCycle /\ ~bSetMode /\ bSetMode' => bBlink' # bBlink]_vars
    /\ [][IsMainCycle /\ bSetMode' /\ bBlink' # bBlink =>
            IF nPair' = 1 /\ ~bBlink'
            THEN nNumber'[5] = TOFF /\ nNumber'[1] = TOFF
            ELSE nNumber'[5] = nHourHi' /\ nNumber'[1] = nHourLo']_vars

\* C15 witness: SET mode at 13 h, the hour cells show 1 3.
C15_Witness ==
    /\ pc = "main" /\ bSetMode /\ nHour = 13
    /\ nHourHi = 1 /\ nHourLo = 3 /\ nNumber[5] = 1 /\ nNumber[1] = 3

\* The cells 0..5 for the time of the snapshot: second low, hour low, minute
\* low, minute high, second high, hour high (the hour digits as C15 has them).
TimeCells ==
    [j \in 0..5 |->
        CASE j = 0 -> nSecond % 10
          [] j = 1 -> nHourLo
          [] j = 2 -> nMinute % 10
          [] j = 3 -> nMinute \div 10
          [] j = 4 -> nSecond \div 10
          [] j = 5 -> nHourHi]

\* C16: after every cycle in DISPLAY mode the six cells are, in TIME mode
\* with the overlay flag clear, {secLo, hourLo, minLo, minHi, secHi, hourHi}
\* and, in DATE mode (whatever the flag is) and in TIME mode with the flag
\* set, {yearLo, dayLo, monthLo, monthHi, yearHi, dayHi} of the snapshot, the
\* year taken modulo 100; a cycle in DATE mode that does not leave SET mode
\* leaves the flag as it found it.
C16_DisplayCells ==
    /\ [](pc = "main" /\ ~bSetMode /\ bTimeMode /\ ~bPerDate => nNumber = TimeCells)
    /\ [](pc = "main" /\ ~bSetMode /\ (~bTimeMode \/ bPerDate)
            => nNumber = DateCells(nNow))
    /\ [][IsMainCycle /\ ~bSetMode /\ ~bTimeMode' => bPerDate' = bPerDate]_vars

\* C16 witness: DATE mode with the overlay flag still set, the cells show
\* 25 12 34.
C16_Witness ==
    /\ pc = "main" /\ ~bSetMode /\ ~bTimeMode /\ bPerDate
    /\ nNumber = [j \in 0..5 |->
                    CASE j = 0 -> 4 [] j = 1 -> 5 [] j = 2 -> 2 [] j = 3 -> 1
                      [] j = 4 -> 3 [] j = 5 -> 2]

\* The cleaning cycle is running (loop() is inside its last block).
InSweep == pc \in {"clean", "fadeOn", "show", "fadeOff"}

\* C17 as stated: a cleaning cycle starts only at the end of a main cycle that ends in
\* DISPLAY mode with a snapshot of minute low digit 5 and second 1 (never in
\* SET mode); while it runs no button is sampled, timeMode, setMode and
\* selectedPair stay and the real time clock is not written (it only counts);
\* when it ends the clock is past the second of the snapshot, so that second
\* starts one cleaning cycle at most.
C17_SweepStart ==
    [][/\ (pc' = "clean" /\ pc # "clean")
            => /\ IsMainCycle
               /\ ~bSetMode'
               /\ nNow' = rtc'
               /\ nNow'.mm % 10 = 5 /\ nNow'.ss = 1
               /\ nSweeps' = 1
       /\ InSweep
            => /\ UNCHANGED <<inputVars, pressedVars, bTimeMode, bSetMode, nPair>>
               /\ UNCHANGED <<rtcWrites, nNow>>
               /\ SecondsTime(rtc') >= SecondsTime(rtc)
       /\ (InSweep /\ pc' = "main")
            => SecondsTime(rtc') > SecondsTime(nNow)]_vars

C17_Witness == pc = "main" /\ nSweeps = 1 /\ jSweep = 10 /\ ~bTimeMode

\* A cleaning cycle starts in this step.
SweepStarts == pc # "clean" /\ pc' = "clean"

C19_PlusMinusCancel ==
    [][(IsMainCycle /\ Len(PlusWrites') = 1 /\ Len(MinusWrites') = 1)
        => rtc' = rtc]_vars

\* C20 as stated: when the numbers changed during a fade, the scan after the
\* one that completed the fade starts a transition for the late change (the
\* fade out counter is set to PERSIST again).
C20_LateChangeRestarts ==
    [][(IsMainCycle /\ nFadeOut = 0 /\ bLateChange /\ nNumber' = nNumber)
        => nFadeOut' = PERSIST]_vars

\* C20: when the numbers change during a fade no transition restarts (the fade
\* out counter keeps counting down), and the scan that completes the fade sets
\* the old numbers to the numbers of that scan: the late change is taken into
\* the fade that was running, and no transition is started for it afterwards
\* (the counter stays 0 until the numbers change again).
C20_LateChangeAbsorbed ==
    [][IsMainCycle =>
        /\ nFadeOut > 0 => nFadeOut' \in {nFadeOut, nFadeOut - 1}
        /\ (nFadeOut > 0 /\ nFadeOut' = 0) => nOldNumber' = nNumber'
        /\ (nFadeOut = 0 /\ bLateChange /\ nNumber' = nNumber)
             => nFadeOut' = 0 /\ nOldNumber' = nNumber']_vars

C20_Witness == nFadeOut = 0 /\ bLateChange /\ nOldNumber = nNumber /\ nNumber # Blank6

\* C21: a fade completes after exactly PERSIST * FSKIP scans: the skip counter
\* stays in 1..FSKIP and is FSKIP when no fade runs (so whenever one starts),
\* the fade out counter goes down by one on every FSKIP-th scan of the fade
\* and not otherwise, and the scan that brings it to 0 sets the old numbers to
\* the numbers of that scan.
C21_FadeLength ==
    [][IsMainCycle =>
        /\ nFadeSkip' \in 1..FSKIP
        /\ nFadeOut' = 0 => nFadeSkip' = FSKIP
        /\ nFadeOut > 0 => nFadeOut' = (IF nFadeSkip = 1 THEN nFadeOut - 1 ELSE nFadeOut)
        /\ nFadeOut' > 0
             => nFadeScans' = ((PERSIST - nFadeOut') * FSKIP) + (FSKIP - nFadeSkip')
        /\ (nFadeOut' = 0 /\ nFadeScans' > 0)
             => nFadeScans' = PERSIST * FSKIP /\ nOldNumber' = nNumber']_vars

C21_Witness == nFadeOut = 0 /\ nFadeScans = PERSIST * FSKIP /\ nOldNumber = nNumber

\* C22: in every scan the fade out counter is in 0..PERSIST and the fade in
\* time is PERSIST minus the fade out time, so each anode is lit for PERSIST
\* milliseconds (the old numbers for delay(nFadeOut), then the numbers for
\* delay(nFadeIn)); the fade out counter is set to PERSIST only by a scan that
\* finds it 0 and some old number different from the number to display.
C22_FadeBudget ==
    [][IsMainCycle =>
        /\ nFadeOut' \in 0..PERSIST
        /\ nDelayOut' \in 0..PERSIST
        /\ nFadeIn' = PERSIST - nDelayOut'
        /\ nDelayOut' + nFadeIn' = PERSIST
        /\ nDelayOut' \in {nFadeOut, PERSIST}
        /\ nDelayOut' # nFadeOut => nFadeOut = 0 /\ nOldNumber # nNumber']_vars

C22_Witness == nDelayOut = 3 /\ nFadeIn = 4 /\ nFadeOut = 2

\* The pair of tubes that cell j belongs to.
PairOf(j) == CASE j \in {5, 1} -> 1 [] j \in {3, 2} -> 2 [] j \in {4, 0} -> 3

\* The cells 0..5 for the time dt on the 24 hour clock.
RawTimeCells(dt) ==
    [j \in 0..5 |->
        CASE j = 0 -> dt.ss % 10
          [] j = 1 -> dt.hh % 10
          [] j = 2 -> dt.mm % 10
          [] j = 3 -> dt.mm \div 10
          [] j = 4 -> dt.ss \div 10
          [] j = 5 -> dt.hh \div 10]

\* The cells 0..5 for the date in nDay, nMonth, nYear.
GlobalDateCells ==
    [j \in 0..5 |->
        CASE j = 0 -> (nYear % 100) % 10
          [] j = 1 -> nDay % 10
          [] j = 2 -> nMonth % 10
          [] j = 3 -> nMonth \div 10
          [] j = 4 -> (nYear % 100) \div 10
          [] j = 5 -> nDay \div 10]

\* C23 as stated: after every main cycle in SET mode the cells of the selected
\* pair are blank exactly when the blink flag is off and every other cell is
\* the digit of the cycle's snapshot for the TIME/DATE mode.
C23_CellsEveryCycle ==
    [][(IsMainCycle /\ bSetMode') =>
        \A j \in 0..5 :
            /\ PairOf(j) = nPair' => (nNumber'[j] = TOFF <=> ~bBlink')
            /\ PairOf(j) # nPair'
                 => nNumber'[j] = (IF bTimeMode' THEN RawTimeCells(rtc)
                                   ELSE DateCells(rtc))[j]]_vars

\* C23: in SET mode the cells are assembled only by the main cycles that toggle
\* the blink flag: after such a cycle the cells of the selected pair are blank
\* when the flag is off, and every other cell is the digit of the clock
\* globals for the TIME/DATE mode (the hour on the 24 hour clock); every other
\* SET mode cycle leaves the six cells as they were.
C23_CellsOnBlink ==
    [][(IsMainCycle /\ bSetMode') =>
        IF bBlink' # bBlink
        THEN \A j \in 0..5 :
                nNumber'[j] = IF PairOf(j) = nPair' /\ ~bBlink' THEN TOFF
                              ELSE (IF bTimeMode' THEN TimeCells' ELSE GlobalDateCells')[j]
        ELSE nNumber' = nNumber]_vars

C23_Witness == bSetMode /\ ~bBlink /\ nPair = 3 /\ nNumber[3] = TOFF /\ nNumber[4] # TOFF

\* C24 as stated: in SET mode a main cycle toggles the blink flag only when
\* the millisecond counter is more than 500 ms past the blink reference (the
\* reading at the toggle before), next to the wraparound too.
C24_BlinkGap ==
    [][(IsMainCycle /\ bSetMode' /\ bBlink' # bBlink)
        => ULLess(ULong(BlinkMs), ULSub(millis', nBlinkTime))]_vars

\* The milliseconds of the wait that the cleaning cycle is about to execute.
WaitMs == IF pc = "show" THEN CLEAN ELSE ((3 * PERSIST) + 2) * FSKIP

\* The scans that fill ms milliseconds.
ScansFor(ms) == (ms + (3 * PERSIST) - 1) \div (3 * PERSIST)

\* C25: every wait of the cleaning cycle ends after a bounded number of scans
\* (at most twice the scans that fill the time of the wait), also when the
\* millisecond counter wraps during the wait or the wait starts just below the
\* wraparound, and a cleaning cycle that has started comes to its end (the main
\* cycle resumes).
C25_SweepTerminates ==
    /\ [][InSweep =>
            \E n \in 0..(2 * ScansFor(WaitMs)) :
                ULSub(millis', millis) = ULong(3 * PERSIST * n)]_vars
    /\ (pc = "clean" ~> (pc = "main" /\ jSweep = 10))

C25_Witness == pc = "main" /\ jSweep = 10 /\ nSweeps = 1 /\ millis[1] = 0

\* C26 as stated: every fade wait of the cleaning cycle completes a fade:
\* when it ends the fade out counter is 0 and the old numbers are the numbers
\* that were faded to (blank, or the numbers of the step).
C26_FadesComplete ==
    [][(InSweep /\ pc # "show")
        => nFadeOut' = 0 /\ nOldNumber' = nNumber']_vars

\* C27 as stated: the cleaning cycle steps j = 0, 1, ..., 9 in order, sets the
\* cells 5, 3, 4 to j and the cells 1, 2, 0 to 9 - j, and when it ends every
\* tube has been lit with every number 0..9 in one of its scans.
C27_AllDigits ==
    [][/\ pc = "fadeOn"
            => \A i \in 0..5 : nNumber'[i] = IF i \in {5, 3, 4} THEN jSweep ELSE 9 - jSweep
       /\ pc = "show" => nNumber' = nNumber
       /\ pc = "fadeOff" => jSweep' = jSweep + 1
       /\ (InSweep /\ pc' = "main")
            => jSweep' = 10 /\ \A i \in 0..5 : \A d \in 0..9 : d \in nDriven'[i]]_vars

\* The levels SetSN74141 puts on a decoder for the number n.
LineCode(n) == IF n <= 9 THEN BinaryCode(n) ELSE Lines(1, 1, 1, 1)

\* C28: at most one of the three anode lines is enabled at any instant; an
\* anode is switched on only when the decoders carry the old numbers of its
\* own pair of tubes, and while it is on they carry the old or the current
\* numbers of that pair, so it is off again before the next pair is written;
\* outside a scan (between scans and in the hold loop of the set button) all
\* three anodes are off.
C28_OneAnode ==
    /\ [](Cardinality({c \in 1..3 : anode[c]}) <= 1)
    /\ [](pc # "scan" => \A c \in 1..3 : ~anode[c])
    /\ [](\A c \in 1..3 :
             anode[c] => \/ /\ cathode1 = LineCode(nOldNumber[c + 2])
                            /\ cathode2 = LineCode(nOldNumber[c - 1])
                         \/ /\ cathode1 = LineCode(nNumber[c + 2])
                            /\ cathode2 = LineCode(nNumber[c - 1]))
    /\ [][\A c \in 1..3 :
             /\ (~anode[c] /\ anode'[c])
                  => /\ cathode1 = LineCode(nOldNumber[c + 2])
                     /\ cathode2 = LineCode(nOldNumber[c - 1])
                     /\ UNCHANGED decoderVars
             /\ (anode[c] /\ ~UNCHANGED decoderVars)
                  => /\ anode'[c]
                     /\ cathode1' = LineCode(nNumber[c + 2])
                     /\ cathode2' = LineCode(nNumber[c - 1])]_vars

\* C28 witness: in the middle of a fade from 0..5 to 9..4 anode 3 is on with
\* the current numbers 4 and 7 of the tubes 5 and 2 on the decoders, in the
\* scan after a hold of the set button of 70 polls.
C28_Witness ==
    /\ pc = "scan" /\ anode[3] /\ nFadeOut \in 1..(PERSIST - 1)
    /\ nOldNumber = [j \in 0..5 |-> j]
    /\ cathode1 = Lines(0, 0, 1, 0) /\ cathode2 = Lines(1, 1, 1, 0)
    /\ bSetButtonPressed /\ nSetTimer = LongPressPolls

\* C29 as stated: in DISPLAY and TIME mode a cycle whose snapshot is outside
\* seconds 1..9 of a minute of low digit 3 ends with the overlay flag false
\* and the six cells showing the time, whatever the buttons did.
C29_OverlayOnlyInWindow ==
    (pc = "main" /\ ~bSetMode /\ bTimeMode
        /\ ~(nMinute % 10 = 3 /\ nSecond \in 1..9))
    => (~bPerDate /\ nNumber = TimeCells)

\* C30 as stated: the cycle whose long press of the set button switches from
\* DISPLAY to SET mode makes no manual adjustment (plus and minus are
\* sampled once in it, so neither was sampled low and then high since the
\* entry), whatever was held when SET mode was left before.
C30_EntryAdjustsNothing ==
    [][(IsMainCycle /\ ~bSetMode /\ bSetMode') => Len(ManualWrites') = 0]_vars

\* C9: in SET mode the cycle that samples plus (minus) high after the cycle
\* before sampled it low makes exactly one advancing (retarding) adjustment;
\* a cycle that samples plus (minus) low makes none; a cycle that is in
\* DISPLAY mode when the buttons are looked at makes no manual adjustment.
C9_OneStepPerRelease ==
    [][IsMainCycle =>
        /\ (pc = "main" /\ bSetMode /\ bSetMode' /\ nPlusInput = 0 /\ nPlusInput' = 1
               => Len(PlusWrites') = 1)
        /\ (pc = "main" /\ bSetMode /\ bSetMode' /\ nMinusInput = 0 /\ nMinusInput' = 1
               => Len(MinusWrites') = 1)
        /\ (nPlusInput' = 0 => Len(PlusWrites') = 0)
        /\ (nMinusInput' = 0 => Len(MinusWrites') = 0)
        /\ (~bSetMode' => Len(ManualWrites') = 0)]_vars

\* C9 witness: plus was released in SET mode and the clock was advanced once.
C9_Witness ==
    /\ bSetMode /\ nPlusInput = 1 /\ ~bPlusButtonPressed
    /\ Len(PlusWrites) = 1 /\ Len(MinusWrites) = 0

=============================================================================
